---- MODULE Spec2Model ----
(***************************************************************************)
(* Roster reconciliation: the web application's rosterCompare.ts           *)
(* (normalizeName, namesMatch, extractPeriodFromGCName, normalizePeriod,   *)
(* findMatchingGCCourse, getUniquePeriods, getStudentsForPeriod,           *)
(* getCourseNameForPeriod, compareRosters, compareForPeriod).              *)
(*                                                                         *)
(* A JavaScript string is modelled as a sequence of one-character strings, *)
(* so that trimming, splitting, regular-expression matching and parseInt   *)
(* are computed character by character, as the code computes them.         *)
(***************************************************************************)
EXTENDS Integers, Sequences, FiniteSets, TLC

\* ------------------------------------------------------------------------
\* Characters
\* ------------------------------------------------------------------------

LowerLetters == <<"a", "b", "c", "d", "e", "f", "g", "h", "i", "j", "k", "l", "m", "n", "o", "p", "q", "r", "s", "t", "u", "v", "w", "x", "y", "z">>

UpperLetters == <<"A", "B", "C", "D", "E", "F", "G", "H", "I", "J", "K", "L", "M", "N", "O", "P", "Q", "R", "S", "T", "U", "V", "W", "X", "Y", "Z">>

DigitChars == <<"0", "1", "2", "3", "4", "5", "6", "7", "8", "9">>

Range(s) == {s[i] : i \in 1..Len(s)}

Digits == Range(DigitChars)

Letters == Range(LowerLetters) \cup Range(UpperLetters)

\* the white space of \s, String.prototype.trim and parseInt that the model's
\* strings use: space and tab
IsSpace(c) == c \in {" ", "\t"}

\* \d
IsDigit(c) == c \in Digits

\* \w, the word characters that decide \b
IsWord(c) == c \in Letters \/ c \in Digits \/ c = "_"

\* the value of each decimal digit
DigitValue == [c \in Digits |-> (CHOOSE i \in 1..10 : DigitChars[i] = c) - 1]

DigitVal(c) == DigitValue[c]

\* the lower-case letter of each upper-case letter
LowerOf == [c \in Range(UpperLetters) |-> LowerLetters[CHOOSE i \in 1..26 : UpperLetters[i] = c]]

\* String.prototype.toLowerCase on one character
LowerChar(c) == IF c \in DOMAIN LowerOf THEN LowerOf[c] ELSE c

\* String.prototype.toLowerCase
toLowerCase(s) == [i \in 1..Len(s) |-> LowerChar(s[i])]

SetMin(S) == CHOOSE x \in S : \A y \in S : x <= y

SetMax(S) == CHOOSE x \in S : \A y \in S : y <= x

\* String.prototype.trim
trim(s) ==
  LET idx == {i \in 1..Len(s) : ~IsSpace(s[i])}
  IN  IF idx = {} THEN <<>> ELSE SubSeq(s, SetMin(idx), SetMax(idx))

\* s.replace(/\s+/g, ' '): every maximal run of white space becomes one space
RECURSIVE collapseFrom(_, _)
collapseFrom(s, i) ==
  IF i > Len(s) THEN <<>>
  ELSE IF IsSpace(s[i])
    THEN IF i > 1 /\ IsSpace(s[i - 1])
           THEN collapseFrom(s, i + 1)
           ELSE <<" ">> \o collapseFrom(s, i + 1)
    ELSE <<s[i]>> \o collapseFrom(s, i + 1)

collapseWhitespace(s) == collapseFrom(s, 1)

\* String.prototype.split on a one-character separator: every occurrence
\* splits, and a string without the separator gives one part
RECURSIVE split(_, _)
split(s, sep) ==
  LET idx == {i \in 1..Len(s) : s[i] = sep}
  IN  IF idx = {} THEN <<s>>
      ELSE LET i == SetMin(idx)
           IN  <<SubSeq(s, 1, i - 1)>> \o split(SubSeq(s, i + 1, Len(s)), sep)

\* ------------------------------------------------------------------------
\* Name normalizer and matcher (rosterCompare.ts)
\* ------------------------------------------------------------------------

\* lastFirstToFirstLast keeping the middle names
lastFirstKeepingMiddle(parts) ==
  trim(parts[2]) \o <<" ">> \o trim(parts[1])

\* the "Last, First" branch of normalizeName: parts are the pieces between
\* the commas; the second piece's first word, a space, the first piece
lastFirstToFirstLast(parts) ==
  split(trim(parts[2]), " ")[1] \o <<" ">> \o trim(parts[1])

\* normalizeName after the white space is cleaned: with a comma,
\* "Last, First Middle" becomes "first last"; lowercased
canonicalForm(normalized) ==
  IF "," \in Range(normalized)
    THEN toLowerCase(lastFirstToFirstLast(split(normalized, ",")))
    ELSE toLowerCase(normalized)

\* normalizeName: '' for a falsy name; else trimmed, white space collapsed,
\* and brought to canonical form
normalizeName(name) ==
  IF name = <<>> THEN <<>> ELSE canonicalForm(collapseWhitespace(trim(name)))

\* the comparison of first and last name in namesMatch
firstAndLastMatch(parts1, parts2) ==
  IF Len(parts1) >= 2 /\ Len(parts2) >= 2
    THEN /\ parts1[1] = parts2[1]
         /\ parts1[Len(parts1)] = parts2[Len(parts2)]
    ELSE FALSE

\* namesMatch on the normalized names n1 and n2
normalizedMatch(n1, n2) ==
  IF n1 = n2 THEN TRUE ELSE firstAndLastMatch(split(n1, " "), split(n2, " "))

\* namesMatch without the normalization of the second name
namesMatchSecondRaw(name1, name2) ==
  normalizedMatch(normalizeName(name1), toLowerCase(name2))

\* namesMatch: equal canonical forms, or equal first and last words when
\* both canonical forms split into at least two parts
namesMatch(name1, name2) ==
  normalizedMatch(normalizeName(name1), normalizeName(name2))

\* ------------------------------------------------------------------------
\* Period/course aligner (rosterCompare.ts)
\* ------------------------------------------------------------------------

\* the value String.prototype.match and Array.prototype.find give when
\* nothing is found; no string of characters equals it
null == <<"null">>

\* the text of NaN.toString()
NaNString == <<"N", "a", "N">>

\* the length of the longest run of digits of s that starts at index j: what
\* a greedy \d+ consumes there
RECURSIVE digitRun(_, _)
digitRun(s, j) ==
  IF j <= Len(s) /\ IsDigit(s[j]) THEN 1 + digitRun(s, j + 1) ELSE 0

\* the index after the run of white space that starts at index j: where a
\* greedy \s* stops
RECURSIVE skipSpace(_, _)
skipSpace(s, j) ==
  IF j <= Len(s) /\ IsSpace(s[j]) THEN skipSpace(s, j + 1) ELSE j

\* \b between index j - 1 and index j (1 <= j <= Len(s) + 1)
wordBoundary(s, j) ==
  LET before == j > 1 /\ IsWord(s[j - 1])
      after == j <= Len(s) /\ IsWord(s[j])
  IN  before # after

\* whether the letters of word, compared without case, stand at index j
literalAt(s, j, word) ==
  /\ j + Len(word) - 1 <= Len(s)
  /\ \A k \in 1..Len(word) : LowerChar(s[j + k - 1]) = word[k]

\* the first of the captures that is not null, or null: the capture of the
\* leftmost match when captures[j] is that of a match starting at index j,
\* the capture of the first pattern that matches when captures[k] is that
\* of pattern k
firstCapture(captures) ==
  LET hits == {i \in 1..Len(captures) : captures[i] # null}
  IN  IF hits = {} THEN null ELSE captures[SetMin(hits)]

\* name.match(/^(\d+)[\s-]/)
matchLeadingNumber(s) ==
  LET k == digitRun(s, 1)
  IN  IF k >= 1 /\ k + 1 <= Len(s) /\ (IsSpace(s[k + 1]) \/ s[k + 1] = "-")
        THEN SubSeq(s, 1, k)
        ELSE null

\* name.match(/period\s*(\d+)/i)
matchPeriodWord(s) ==
  LET capture(j) ==
        IF literalAt(s, j, <<"p", "e", "r", "i", "o", "d">>)
          THEN LET d == skipSpace(s, j + 6)
                   k == digitRun(s, d)
               IN  IF k >= 1 THEN SubSeq(s, d, d + k - 1) ELSE null
          ELSE null
  IN  firstCapture([j \in 1..Len(s) |-> capture(j)])

\* name.match(/\((\d+)\)/)
matchParenthesized(s) ==
  LET capture(j) ==
        IF s[j] = "("
          THEN LET k == digitRun(s, j + 1)
               IN  IF k >= 1 /\ j + k + 1 <= Len(s) /\ s[j + k + 1] = ")"
                     THEN SubSeq(s, j + 1, j + k)
                     ELSE null
          ELSE null
  IN  firstCapture([j \in 1..Len(s) |-> capture(j)])

\* name.match(/\bp(\d+)\b/i)
matchPNumber(s) ==
  LET capture(j) ==
        IF wordBoundary(s, j) /\ literalAt(s, j, <<"p">>)
          THEN LET k == digitRun(s, j + 1)
               IN  IF k >= 1 /\ wordBoundary(s, j + 1 + k)
                     THEN SubSeq(s, j + 1, j + k)
                     ELSE null
          ELSE null
  IN  firstCapture([j \in 1..Len(s) |-> capture(j)])

\* name.match(/\bpd\s*(\d+)\b/i)
matchPdNumber(s) ==
  LET capture(j) ==
        IF wordBoundary(s, j) /\ literalAt(s, j, <<"p", "d">>)
          THEN LET d == skipSpace(s, j + 2)
                   k == digitRun(s, d)
               IN  IF k >= 1 /\ wordBoundary(s, d + k)
                     THEN SubSeq(s, d, d + k - 1)
                     ELSE null
          ELSE null
  IN  firstCapture([j \in 1..Len(s) |-> capture(j)])

\* extractPeriodFromGCName trying "Period X" before the leading number
extractPeriodReordered(name) ==
  IF name = <<>> THEN null
  ELSE firstCapture(<<matchPeriodWord(name), matchLeadingNumber(name),
                      matchParenthesized(name), matchPNumber(name),
                      matchPdNumber(name)>>)

\* extractPeriodFromGCName: null for a falsy name, else the capture of the
\* first pattern that matches, in the order of the code
extractPeriodFromGCName(name) ==
  IF name = <<>> THEN null
  ELSE firstCapture(<<matchLeadingNumber(name), matchPeriodWord(name),
                      matchParenthesized(name), matchPNumber(name),
                      matchPdNumber(name)>>)

\* period.replace(/^0+/, '')
stripLeadingZeros(s) ==
  LET idx == {i \in 1..Len(s) : s[i] # "0"}
  IN  IF idx = {} THEN <<>> ELSE SubSeq(s, SetMin(idx), Len(s))

\* the value of a run of decimal digits
RECURSIVE digitsValue(_)
digitsValue(d) ==
  IF d = <<>> THEN 0
  ELSE 10 * digitsValue(SubSeq(d, 1, Len(d) - 1)) + DigitVal(d[Len(d)])

\* Number.prototype.toString of a non-negative integer
RECURSIVE natToString(_)
natToString(n) ==
  IF n < 10 THEN <<DigitChars[n + 1]>>
  ELSE natToString(n \div 10) \o <<DigitChars[(n % 10) + 1]>>

\* a JavaScript number of the model: NaN or an integer
NaN == [nan |-> TRUE, val |-> 0]

Num(v) == [nan |-> FALSE, val |-> v]

\* parseInt(s, 10), and parseInt(s) of a string that has no 0x prefix:
\* leading white space is skipped, a sign is read, then the longest run of
\* digits; without a digit the number is NaN
parseInt(s) ==
  LET b == skipSpace(s, 1)
      signed == b <= Len(s) /\ s[b] \in {"-", "+"}
      d == IF signed THEN b + 1 ELSE b
      k == digitRun(s, d)
      v == digitsValue(SubSeq(s, d, d + k - 1))
  IN  IF k = 0 THEN NaN
      ELSE IF signed /\ s[b] = "-" THEN Num(0 - v)
      ELSE Num(v)

\* Number.prototype.toString (-0 prints as "0")
numberToString(n) ==
  IF n.nan THEN NaNString
  ELSE IF n.val < 0 THEN <<"-">> \o natToString(0 - n.val)
  ELSE natToString(n.val)

\* normalizePeriod
normalizePeriod(period) == numberToString(parseInt(stripLeadingZeros(period)))

\* the course Array.prototype.find gives when no course qualifies
undefinedCourse == [id |-> "undefined", name |-> null]

periodMatchesAny(gcPeriod, normalizedPeriod) ==
  /\ gcPeriod # null
  /\ gcPeriod # <<>>

\* the callback of find in findMatchingGCCourse:
\* gcPeriod && normalizePeriod(gcPeriod) === normalizedPeriod
periodMatches(gcPeriod, normalizedPeriod) ==
  /\ gcPeriod # null
  /\ gcPeriod # <<>>
  /\ normalizePeriod(gcPeriod) = normalizedPeriod

\* findCourse giving the last course that qualifies
findCourseLast(normalizedPeriod, gcCourses) ==
  LET hits == {i \in 1..Len(gcCourses) :
                 periodMatches(extractPeriodFromGCName(gcCourses[i].name), normalizedPeriod)}
  IN  IF hits = {} THEN undefinedCourse ELSE gcCourses[SetMax(hits)]

\* the first course, in the order given, whose name has a period that
\* normalizes to normalizedPeriod
findCourse(normalizedPeriod, gcCourses) ==
  LET hits == {i \in 1..Len(gcCourses) :
                 periodMatches(extractPeriodFromGCName(gcCourses[i].name), normalizedPeriod)}
  IN  IF hits = {} THEN undefinedCourse ELSE gcCourses[SetMin(hits)]

\* findMatchingGCCourse
findMatchingGCCourse(period, gcCourses) ==
  findCourse(normalizePeriod(period), gcCourses)

\* ------------------------------------------------------------------------
\* Array.prototype.sort and String.prototype.localeCompare
\* ------------------------------------------------------------------------

\* ECMAScript's consistent comparator over the values being sorted; cmp is
\* the comparefn as a function of two of the values
consistentComparator(S, cmp) ==
  /\ \A a \in S : cmp[a, a] = 0
  /\ \A a, b \in S :
       /\ (cmp[a, b] = 0) => (cmp[b, a] = 0)
       /\ (cmp[a, b] < 0) <=> (cmp[b, a] > 0)
  /\ \A a, b, c \in S :
       /\ (cmp[a, b] = 0 /\ cmp[b, c] = 0) => cmp[a, c] = 0
       /\ (cmp[a, b] < 0 /\ cmp[b, c] < 0) => cmp[a, c] < 0
       /\ (cmp[a, b] > 0 /\ cmp[b, c] > 0) => cmp[a, c] > 0

\* the stable sort of seq, what sort gives under a consistent comparator:
\* by insertion, each element put after the last one that does not sort
\* after it
stableSort(seq, cmp) ==
  LET RECURSIVE insertSorted(_, _)
      insertSorted(s, x) ==
        IF s = <<>> THEN <<x>>
        ELSE IF cmp[s[Len(s)], x] <= 0 THEN Append(s, x)
        ELSE Append(insertSorted(SubSeq(s, 1, Len(s) - 1), x), s[Len(s)])
      RECURSIVE sorted(_)
      sorted(s) ==
        IF s = <<>> THEN <<>>
        ELSE insertSorted(sorted(SubSeq(s, 1, Len(s) - 1)), s[Len(s)])
  IN  sorted(seq)

\* every arrangement of the elements of seq
permutationsOf(seq) ==
  LET n == Len(seq)
      bij == {f \in [1..n -> 1..n] : \A i, j \in 1..n : f[i] = f[j] => i = j}
  IN  {[i \in 1..n |-> seq[f[i]]] : f \in bij}

\* Array.prototype.sort(comparefn): the stable sorted order when comparefn
\* is a consistent comparator for the elements; otherwise the order is
\* implementation-defined, and any arrangement of the elements may result
sortOutcomes(seq, cmp) ==
  IF consistentComparator(Range(seq), cmp)
    THEN {stableSort(seq, cmp)}
    ELSE permutationsOf(seq)

\* the order of the characters in the root collation: white space,
\* punctuation, digits, then letters
CollationOrder ==
  <<"\t", " ", "_", "-", ",", "(", ")">> \o DigitChars \o LowerLetters

\* the place of each character in the collation order
CollationWeight ==
  [c \in Range(CollationOrder) |-> CHOOSE i \in 1..Len(CollationOrder) : CollationOrder[i] = c]

\* the primary weight of a character: its letter without case
primaryWeight(c) == CollationWeight[LowerChar(c)]

\* a.localeCompare(b) in the root collation: the first difference of primary
\* weights decides, a proper prefix sorts first; between strings that differ
\* only in case, the first difference decides, lower case first
localeCompare(a, b) ==
  LET n == IF Len(a) < Len(b) THEN Len(a) ELSE Len(b)
      diffP == {i \in 1..n : primaryWeight(a[i]) # primaryWeight(b[i])}
      diffT == {i \in 1..n : a[i] # b[i]}
  IN  IF diffP # {}
        THEN IF primaryWeight(a[SetMin(diffP)]) < primaryWeight(b[SetMin(diffP)])
               THEN -1 ELSE 1
      ELSE IF Len(a) # Len(b) THEN (IF Len(a) < Len(b) THEN -1 ELSE 1)
      ELSE IF diffT # {}
        THEN IF LowerChar(a[SetMin(diffT)]) = a[SetMin(diffT)] THEN -1 ELSE 1
      ELSE 0

\* ------------------------------------------------------------------------
\* Roster set builder (rosterCompare.ts)
\* ------------------------------------------------------------------------

\* the elements of seq in order, each value once: the iteration order of a
\* Set or Map filled from seq
RECURSIVE firstOccurrences(_)
firstOccurrences(seq) ==
  IF seq = <<>> THEN <<>>
  ELSE LET init == firstOccurrences(SubSeq(seq, 1, Len(seq) - 1))
           x == seq[Len(seq)]
       IN  IF x \in Range(init) THEN init ELSE Append(init, x)

\* (a, b) => parseInt(a) - parseInt(b); a NaN result counts as +0 in sort
comparePeriods(a, b) ==
  LET x == parseInt(a)
      y == parseInt(b)
  IN  IF x.nan \/ y.nan THEN 0 ELSE x.val - y.val

\* Array.from(periods).sort((a, b) => parseInt(a) - parseInt(b))
sortedPeriods(periods) ==
  sortOutcomes(periods,
               [a \in Range(periods), b \in Range(periods) |-> comparePeriods(a, b)])

\* getUniquePeriods: the distinct normalized periods, sorted by parseInt;
\* the set of the orders the sort may give
getUniquePeriods(students) ==
  sortedPeriods(
    firstOccurrences([i \in 1..Len(students) |-> normalizePeriod(students[i].period)]))

\* the loop of getStudentsForPeriod: the entries of the period, the first
\* one of each normalized student name
RECURSIVE dedupForPeriod(_, _)
dedupForPeriod(students, normalizedPeriod) ==
  IF students = <<>> THEN <<>>
  ELSE LET result == dedupForPeriod(SubSeq(students, 1, Len(students) - 1), normalizedPeriod)
           student == students[Len(students)]
           key == normalizeName(student.studentName)
           seen == {normalizeName(result[i].studentName) : i \in 1..Len(result)}
       IN  IF normalizePeriod(student.period) = normalizedPeriod /\ key \notin seen
             THEN Append(result, student)
             ELSE result

compareStudentNames(a, b) == localeCompare(a.studentName, b.studentName)

\* sortedByName without the sort
sortedByNameUnsorted(entries) == entries

\* result.sort((a, b) => a.studentName.localeCompare(b.studentName))
sortedByName(entries) ==
  stableSort(entries,
             [a \in Range(entries), b \in Range(entries) |-> compareStudentNames(a, b)])

\* getStudentsForPeriod without the deduplication
getStudentsForPeriodAllRows(students, period) ==
  sortedByName(SelectSeq(students,
                         LAMBDA s : normalizePeriod(s.period) = normalizePeriod(period)))

\* getStudentsForPeriod: deduplicated, then sorted by studentName
getStudentsForPeriod(students, period) ==
  sortedByName(dedupForPeriod(students, normalizePeriod(period)))

\* periodStudents.forEach((s) => ... s.course ...)
coursesOf(students) == [i \in 1..Len(students) |-> students[i].course]

\* the scan of courseCounts in getCourseNameForPeriod: among the courses in
\* the order they were first counted, the first one whose count exceeds
\* every earlier count and is reached by no later one exceeding it; '' when
\* nothing was counted
mostCounted(courses, labels) ==
  LET count(c) == Cardinality({i \in 1..Len(labels) : labels[i] = c})
      best == {i \in 1..Len(courses) :
                 /\ \A j \in 1..Len(courses) : count(courses[j]) <= count(courses[i])
                 /\ \A j \in 1..(i - 1) : count(courses[j]) < count(courses[i])}
  IN  IF best = {} THEN <<>> ELSE courses[SetMin(best)]

\* the counting of getCourseNameForPeriod over the course labels of the
\* period's students
mostCommon(labels) == mostCounted(firstOccurrences(labels), labels)

\* getCourseNameForPeriod: the most common course of the period's students
getCourseNameForPeriod(students, period) ==
  mostCommon(coursesOf(getStudentsForPeriod(students, period)))

\* ------------------------------------------------------------------------
\* Reconciliation engine (rosterCompare.ts)
\* ------------------------------------------------------------------------

\* classifyNames with every Frontline name pushed to missing
classifyNamesMissingAll(flNames, gcNames) ==
  LET foundInGC(flName) == \E i \in 1..Len(gcNames) : namesMatch(flName, gcNames[i])
      notInFrontline(gcName) == ~\E i \in 1..Len(flNames) : namesMatch(flNames[i], gcName)
  IN  [matched |-> SelectSeq(flNames, foundInGC),
       missing |-> flNames,
       extra |-> SelectSeq(gcNames, notInFrontline)]

\* classifyNames with the test of the second loop inverted
classifyNamesExtraInverted(flNames, gcNames) ==
  LET foundInGC(flName) == \E i \in 1..Len(gcNames) : namesMatch(flName, gcNames[i])
      missingInGC(flName) == ~foundInGC(flName)
      inFrontline(gcName) == \E i \in 1..Len(flNames) : namesMatch(flNames[i], gcName)
  IN  [matched |-> SelectSeq(flNames, foundInGC),
       missing |-> SelectSeq(flNames, missingInGC),
       extra |-> SelectSeq(gcNames, inFrontline)]

\* the two classification loops shared by compareRosters and
\* compareForPeriod: a Frontline name is matched when some Classroom name
\* matches it and missing otherwise; a Classroom name is extra when no
\* Frontline name matches it
classifyNames(flNames, gcNames) ==
  LET foundInGC(flName) == \E i \in 1..Len(gcNames) : namesMatch(flName, gcNames[i])
      missingInGC(flName) == ~foundInGC(flName)
      notInFrontline(gcName) == ~\E i \in 1..Len(flNames) : namesMatch(flNames[i], gcName)
  IN  [matched |-> SelectSeq(flNames, foundInGC),
       missing |-> SelectSeq(flNames, missingInGC),
       extra |-> SelectSeq(gcNames, notInFrontline)]

\* flStudents.map((s) => s.studentName)
flNamesOf(students) == [i \in 1..Len(students) |-> students[i].studentName]

\* a ComparisonResult; c holds the matched, missing and extra names
comparisonResult(period, courseName, gcCourse, flNames, gcNames, c) ==
  [period |-> period,
   courseName |-> courseName,
   gcCourseId |-> gcCourse.id,
   gcCourseName |-> gcCourse.name,
   frontlineStudents |-> flNames,
   gcStudents |-> gcNames,
   missingFromGC |-> c.missing,
   extraInGC |-> c.extra,
   matched |-> c.matched]

\* the state of the loop of compareRosters before the first period
emptyRun ==
  [comparisons |-> <<>>, unmatchedPeriods |-> <<>>,
   totalFrontline |-> 0, totalGC |-> 0, totalMissing |-> 0,
   totalExtra |-> 0, totalMatched |-> 0]

\* pushUnmatched without the push to unmatchedPeriods
pushUnmatchedUnlisted(acc, period, courseName, flNames) ==
  [acc EXCEPT
     !.totalFrontline = @ + Len(flNames),
     !.comparisons = Append(@,
        comparisonResult(period, courseName, undefinedCourse, flNames, <<>>,
                         [matched |-> <<>>, missing |-> flNames, extra |-> <<>>])),
     !.totalMissing = @ + Len(flNames)]

\* pushUnmatched without the addition to totalMissing
pushUnmatchedUncounted(acc, period, courseName, flNames) ==
  [acc EXCEPT
     !.totalFrontline = @ + Len(flNames),
     !.unmatchedPeriods = Append(@, period),
     !.comparisons = Append(@,
        comparisonResult(period, courseName, undefinedCourse, flNames, <<>>,
                         [matched |-> <<>>, missing |-> flNames, extra |-> <<>>]))]

\* the branch of the loop for a period without a course: the period is
\* unmatched, every name is missing
pushUnmatched(acc, period, courseName, flNames) ==
  [acc EXCEPT
     !.totalFrontline = @ + Len(flNames),
     !.unmatchedPeriods = Append(@, period),
     !.comparisons = Append(@,
        comparisonResult(period, courseName, undefinedCourse, flNames, <<>>,
                         [matched |-> <<>>, missing |-> flNames, extra |-> <<>>])),
     !.totalMissing = @ + Len(flNames)]

\* the rest of the loop for a period with a course: the counts are added
\* and the comparison is pushed
pushMatched(acc, comparison) ==
  [acc EXCEPT
     !.totalFrontline = @ + Len(comparison.frontlineStudents),
     !.totalGC = @ + Len(comparison.gcStudents),
     !.totalMissing = @ + Len(comparison.missingFromGC),
     !.totalExtra = @ + Len(comparison.extraInGC),
     !.totalMatched = @ + Len(comparison.matched),
     !.comparisons = Append(@, comparison)]

\* gcStudentsByCourse[id] || [], as the names of the students
studentNamesOf(gcStudentsByCourse, id) ==
  IF id \in DOMAIN gcStudentsByCourse THEN gcStudentsByCourse[id] ELSE <<>>

\* compareWithCourse with the two rosters in each other's place in the loops
compareWithCourseSwapped(period, courseName, gcCourse, flNames, gcNames) ==
  comparisonResult(period, courseName, gcCourse, flNames, gcNames,
                   classifyNames(gcNames, flNames))

\* the comparison of a period with its course
compareWithCourse(period, courseName, gcCourse, flNames, gcNames) ==
  comparisonResult(period, courseName, gcCourse, flNames, gcNames,
                   classifyNames(flNames, gcNames))

\* the body of the loop of compareRosters once the period's names, course
\* name and course are known
pushPeriod(acc, period, courseName, gcCourse, flNames, gcStudentsByCourse) ==
  IF gcCourse = undefinedCourse
    THEN pushUnmatched(acc, period, courseName, flNames)
    ELSE pushMatched(acc,
           compareWithCourse(period, courseName, gcCourse, flNames,
                             studentNamesOf(gcStudentsByCourse, gcCourse.id)))

\* one iteration of the loop of compareRosters: the state after the period
\* is handled, from the state acc before it
compareStep(acc, period, frontlineStudents, gcCourses, gcStudentsByCourse) ==
  pushPeriod(acc, period,
             getCourseNameForPeriod(frontlineStudents, period),
             findMatchingGCCourse(period, gcCourses),
             flNamesOf(getStudentsForPeriod(frontlineStudents, period)),
             gcStudentsByCourse)

\* the loop of compareRosters over the periods in the order given
RECURSIVE compareLoop(_, _, _, _)
compareLoop(periods, frontlineStudents, gcCourses, gcStudentsByCourse) ==
  IF periods = <<>>
    THEN emptyRun
    ELSE compareStep(
           compareLoop(SubSeq(periods, 1, Len(periods) - 1),
                       frontlineStudents, gcCourses, gcStudentsByCourse),
           periods[Len(periods)], frontlineStudents, gcCourses, gcStudentsByCourse)

\* (a, b) => parseInt(a.period) - parseInt(b.period)
compareComparisons(a, b) == comparePeriods(a.period, b.period)

\* comparisons.sort((a, b) => parseInt(a.period) - parseInt(b.period))
sortedComparisons(comparisons) ==
  sortOutcomes(comparisons,
               [a \in Range(comparisons), b \in Range(comparisons) |-> compareComparisons(a, b)])

\* the RosterDiff built from the loop's final state and one order of the
\* final sort
rosterDiff(acc, comparisons) ==
  [comparisons |-> comparisons,
   unmatchedPeriods |-> acc.unmatchedPeriods,
   summary |-> [totalFrontline |-> acc.totalFrontline,
                totalGC |-> acc.totalGC,
                totalMissing |-> acc.totalMissing,
                totalExtra |-> acc.totalExtra,
                totalMatched |-> acc.totalMatched]]

\* the RosterDiffs the final sort may give from the loop's final state
sortedDiffs(acc) ==
  {rosterDiff(acc, cs) : cs \in sortedComparisons(acc.comparisons)}

\* compareRosters without an outcome when a period is not a number
compareRostersNumericOnly(frontlineStudents, gcCourses, gcStudentsByCourse) ==
  UNION {sortedDiffs(compareLoop(periods, frontlineStudents, gcCourses, gcStudentsByCourse))
         : periods \in {ps \in getUniquePeriods(frontlineStudents) :
                          NaNString \notin Range(ps)}}

\* compareRosters: the RosterDiffs it may return, one for each order the
\* two sorts (of the periods, of the comparisons) may give
compareRosters(frontlineStudents, gcCourses, gcStudentsByCourse) ==
  UNION {sortedDiffs(compareLoop(periods, frontlineStudents, gcCourses, gcStudentsByCourse))
         : periods \in getUniquePeriods(frontlineStudents)}

\* compareForPeriod
compareForPeriod(frontlineStudents, period, gcNames) ==
  compareWithCourse(period,
                    getCourseNameForPeriod(frontlineStudents, period),
                    undefinedCourse,
                    flNamesOf(getStudentsForPeriod(frontlineStudents, period)),
                    gcNames)

\* ------------------------------------------------------------------------
\* The extension's name matcher (compare.js)
\* ------------------------------------------------------------------------

\* s.replace(/,\s*/g, ', '): every comma, with the white space that follows
\* it, becomes a comma and one space
RECURSIVE commaSpacedFrom(_, _)
commaSpacedFrom(s, i) ==
  IF i > Len(s) THEN <<>>
  ELSE IF s[i] = ","
    THEN <<",", " ">> \o commaSpacedFrom(s, skipSpace(s, i + 1))
    ELSE <<s[i]>> \o commaSpacedFrom(s, i + 1)

\* RosterCompare.normalizeName: '' for a falsy name; else lowercased,
\* trimmed, white space collapsed, commas followed by one space
RosterCompare_normalizeName(name) ==
  IF name = <<>> THEN <<>>
  ELSE commaSpacedFrom(collapseWhitespace(trim(toLowerCase(name))), 1)

\* Array.prototype.join
RECURSIVE join(_, _)
join(parts, sep) ==
  IF parts = <<>> THEN <<>>
  ELSE IF Len(parts) = 1 THEN parts[1]
  ELSE parts[1] \o sep \o join(Tail(parts), sep)

\* the "Last, First" branch of parseName: parts are the pieces between the
\* commas
parsedLastFirst(parts) ==
  [first |-> trim(parts[2]),
   last |-> trim(parts[1]),
   full |-> trim(parts[2]) \o <<" ">> \o trim(parts[1])]

\* the other branch of parseName: parts are the pieces between the spaces
parsedFirstLast(parts, normalized) ==
  [first |-> parts[1],
   last |-> join(Tail(parts), <<" ">>),
   full |-> normalized]

\* parseName on the normalized name
parsedName(normalized) ==
  IF "," \in Range(normalized)
    THEN parsedLastFirst(split(normalized, ","))
    ELSE parsedFirstLast(split(normalized, " "), normalized)

\* RosterCompare.parseName
RosterCompare_parseName(name) == parsedName(RosterCompare_normalizeName(name))

\* RosterCompare.namesMatch on the parsed names: equal full names, equal
\* first and last, or first and last swapped
parsedMatch(n1, n2) ==
  \/ n1.full = n2.full
  \/ n1.first = n2.first /\ n1.last = n2.last
  \/ n1.first = n2.last /\ n1.last = n2.first

\* RosterCompare.namesMatch
RosterCompare_namesMatch(name1, name2) ==
  parsedMatch(RosterCompare_parseName(name1), RosterCompare_parseName(name2))

\* ------------------------------------------------------------------------
\* CSV utilities (csv/parser.ts)
\* ------------------------------------------------------------------------

\* JavaScript values of a row's fields: a string, a number, null
stringValue(text) == [kind |-> "string", text |-> text]

numberValue(n) == [kind |-> "number", num |-> Num(n)]

nullValue == [kind |-> "null"]

\* what row[field] gives for a field the row does not have
undefinedValue == [kind |-> "undefined"]

arrayValue(items) == [kind |-> "array", items |-> items]

\* String(value)
String(v) ==
  CASE v.kind = "string" -> v.text
    [] v.kind = "number" -> numberToString(v.num)
    [] v.kind = "null" -> <<"n", "u", "l", "l">>
    [] v.kind = "undefined" -> <<"u", "n", "d", "e", "f", "i", "n", "e", "d">>

\* row[field]; a row is a function from its field names to values
fieldOf(row, field) == IF field \in DOMAIN row THEN row[field] ELSE undefinedValue

\* the loop of deduplicateByKey: rows is the list of the rows stored in
\* seen, in the insertion order of their keys
RECURSIVE dedupLoop(_, _)
dedupLoop(data, keyField) ==
  IF data = <<>> THEN [unique |-> <<>>, duplicates |-> <<>>]
  ELSE LET acc == dedupLoop(SubSeq(data, 1, Len(data) - 1), keyField)
           row == data[Len(data)]
       IN  IF \E i \in 1..Len(acc.unique) :
                fieldOf(acc.unique[i], keyField) = fieldOf(row, keyField)
             THEN [acc EXCEPT !.duplicates = Append(@, row)]
             ELSE [acc EXCEPT !.unique = Append(@, row)]

deduplicateByKeyNewestFirst(data, keyField) ==
  LET kept == dedupLoop(data, keyField)
  IN  [kept EXCEPT !.duplicates =
         [i \in 1..Len(@) |-> @[Len(@) + 1 - i]]]

\* deduplicateByKey
deduplicateByKey(data, keyField) == dedupLoop(data, keyField)

\* mapping.transform(value): the transforms given are toLowerCase and trim
applyTransform(transform, value) ==
  CASE transform = "toLowerCase" -> toLowerCase(value)
    [] transform = "trim" -> trim(value)

\* mapped[target] = value
assign(mapped, target, value) ==
  [t \in DOMAIN mapped \cup {target} |-> IF t = target THEN value ELSE mapped[t]]

mapStepFirstWins(mapped, row, mapping) ==
  IF mapping.target \in DOMAIN mapped THEN mapped
  ELSE IF fieldOf(row, mapping.source) # undefinedValue
    THEN assign(mapped, mapping.target,
                IF "transform" \in DOMAIN mapping
                  THEN applyTransform(mapping.transform, String(fieldOf(row, mapping.source)))
                  ELSE String(fieldOf(row, mapping.source)))
    ELSE IF "required" \in DOMAIN mapping /\ mapping.required
      THEN assign(mapped, mapping.target, <<>>)
      ELSE mapped

\* one iteration of the loop over the mappings: a mapping is a function from
\* "source", "target" and, when given, "required" and "transform"
mapStep(mapped, row, mapping) ==
  IF fieldOf(row, mapping.source) # undefinedValue
    THEN assign(mapped, mapping.target,
                IF "transform" \in DOMAIN mapping
                  THEN applyTransform(mapping.transform, String(fieldOf(row, mapping.source)))
                  ELSE String(fieldOf(row, mapping.source)))
    ELSE IF "required" \in DOMAIN mapping /\ mapping.required
      THEN assign(mapped, mapping.target, <<>>)
      ELSE mapped

\* the loop over the mappings for one row; mapped starts as {}
RECURSIVE mapRow(_, _)
mapRow(row, mappings) ==
  IF mappings = <<>> THEN <<>>
  ELSE mapStep(mapRow(row, SubSeq(mappings, 1, Len(mappings) - 1)), row,
               mappings[Len(mappings)])

\* mapColumns
mapColumns(data, mappings) == [i \in 1..Len(data) |-> mapRow(data[i], mappings)]

\* ------------------------------------------------------------------------
\* CSV validation (csv/parser.ts)
\* ------------------------------------------------------------------------

\* the characters of a field name
fieldChars ==
  [id |-> <<"i", "d">>, name |-> <<"n", "a", "m", "e">>,
   email |-> <<"e", "m", "a", "i", "l">>]

\* !value is false: the value is not undefined, null, '', 0 or NaN
truthy(v) ==
  CASE v.kind = "string" -> v.text # <<>>
    [] v.kind = "number" -> ~v.num.nan /\ v.num.val # 0
    [] v.kind = "null" -> FALSE
    [] v.kind = "undefined" -> FALSE
    [] v.kind = "array" -> TRUE

\* /^[^\s@]+@[^\s@]+\.[^\s@]+$/.test(email)
isValidEmail(email) ==
  /\ \A i \in 1..Len(email) : ~IsSpace(email[i])
  /\ \E at \in 2..Len(email) :
       /\ email[at] = "@"
       /\ \A i \in 1..Len(email) : email[i] = "@" => i = at
       /\ \E dot \in (at + 2)..(Len(email) - 1) : email[dot] = "."

\* emailValidator; null stands for the null it returns
emailValidator(value) ==
  IF ~truthy(value) \/ trim(String(value)) = <<>> THEN null
  ELSE IF ~isValidEmail(String(value))
    THEN <<"I", "n", "v", "a", "l", "i", "d", " ", "e", "m", "a", "i", "l", " ",
           "f", "o", "r", "m", "a", "t", ":", " ">> \o String(value)
    ELSE null

\* validator(value, row, rowIndex) for the validators a caller gives:
\* emailValidator, one that answers '' and one that rejects a row without
\* the column
callValidator(validator, value, row, rowIndex) ==
  CASE validator = "emailValidator" -> emailValidator(value)
    [] validator = "emptyMessage" -> <<>>
    [] validator = "rejectUndefined" ->
         IF value = undefinedValue THEN <<"n", "o", " ">> \o natToString(rowIndex)
         ELSE null

\* value === undefined || value === null || value === ''
isMissing(value) ==
  value = undefinedValue \/ value = nullValue \/ value = stringValue(<<>>)

\* the loop over requiredFields for one row
requiredErrors(row, rowIndex, requiredFields) ==
  LET errors[n \in 0..Len(requiredFields)] ==
        IF n = 0 THEN <<>>
        ELSE IF isMissing(fieldOf(row, requiredFields[n]))
          THEN Append(errors[n - 1],
                      [row |-> rowIndex + 1,
                       field |-> requiredFields[n],
                       message |-> <<"M", "i", "s", "s", "i", "n", "g", " ",
                                     "r", "e", "q", "u", "i", "r", "e", "d", " ",
                                     "f", "i", "e", "l", "d", ":", " ">>
                                   \o fieldChars[requiredFields[n]]])
          ELSE errors[n - 1]
  IN  errors[Len(requiredFields)]

\* the loop over Object.entries(customValidators) for one row; a message
\* that is null or '' is falsy
customErrors(row, rowIndex, customValidators) ==
  LET errors[n \in 0..Len(customValidators)] ==
        IF n = 0 THEN <<>>
        ELSE LET field == customValidators[n].field
                 value == fieldOf(row, field)
                 errorMessage == callValidator(customValidators[n].validator,
                                               value, row, rowIndex)
             IN  IF errorMessage # null /\ errorMessage # <<>>
                   THEN Append(errors[n - 1],
                               [row |-> rowIndex + 1,
                                field |-> field,
                                message |-> errorMessage,
                                value |-> String(value)])
                   ELSE errors[n - 1]
  IN  errors[Len(customValidators)]

rowErrorsOffByOne(row, rowIndex, requiredFields, customValidators) ==
  requiredErrors(row, rowIndex + 1, requiredFields)
    \o customErrors(row, rowIndex + 1, customValidators)

\* the body of data.forEach((row, rowIndex) => ...): the errors one row adds
rowErrors(row, rowIndex, requiredFields, customValidators) ==
  requiredErrors(row, rowIndex, requiredFields)
    \o customErrors(row, rowIndex, customValidators)

\* validateCSVData; customValidators is the list of the entries of the
\* object given, empty when none is given
validateCSVData(data, requiredFields, customValidators) ==
  LET errors[n \in 0..Len(data)] ==
        IF n = 0 THEN <<>>
        ELSE errors[n - 1]
               \o rowErrors(data[n], n - 1, requiredFields, customValidators)
  IN  [isValid |-> Len(errors[Len(data)]) = 0,
       errors |-> errors[Len(data)],
       warnings |-> <<>>]

\* detectCSVFormat
detectCSVFormat(headers) ==
  LET normalizedHeaders == [i \in 1..Len(headers) |-> trim(toLowerCase(headers[i]))]
      oneRosterIndicators ==
        {toLowerCase(<<"s", "o", "u", "r", "c", "e", "I", "d">>),
         toLowerCase(<<"s", "t", "a", "t", "u", "s">>),
         toLowerCase(<<"d", "a", "t", "e", "L", "a", "s", "t",
                       "M", "o", "d", "i", "f", "i", "e", "d">>)}
      frontlineIndicators ==
        {<<"s", "t", "u", "d", "e", "n", "t", "i", "d">>,
         <<"f", "i", "r", "s", "t", "n", "a", "m", "e">>,
         <<"l", "a", "s", "t", "n", "a", "m", "e">>,
         <<"e", "m", "a", "i", "l">>}
  IN  IF \E indicator \in oneRosterIndicators : indicator \in Range(normalizedHeaders)
        THEN "oneroster"
      ELSE IF \A indicator \in frontlineIndicators : indicator \in Range(normalizedHeaders)
        THEN "frontline"
      ELSE "unknown"

\* ------------------------------------------------------------------------
\* The Classroom API client (googleApi.ts)
\* ------------------------------------------------------------------------

\* the state of a call of the client that has thrown before any request:
\* 'GAPI client not initialized'
notInitialized ==
  [requests |-> <<>>, responses |-> <<>>, awaiting |-> FALSE, fn |-> "none",
   courseId |-> "none", all |-> <<>>, pageToken |-> undefinedValue,
   courses |-> <<>>, i |-> 0, studentsByCourse |-> <<>>, errorsLogged |-> 0,
   outcome |-> "rejected", value |-> "GAPI client not initialized"]

\* the start of the do-while loop of getCourses or getStudents: an empty
\* list and no page token
startPaging(state, fn, courseId) ==
  [state EXCEPT !.fn = fn, !.courseId = courseId, !.all = <<>>,
                !.pageToken = undefinedValue, !.awaiting = FALSE]

\* the state of a call that has passed the check of gapiClient
started(fn, courseId) ==
  startPaging([notInitialized EXCEPT !.outcome = "running", !.value = <<>>],
              fn, courseId)

\* gapiClient.request(...) of the loop: the path and the page token it sends
requestOf(state) ==
  [path |-> IF state.fn = "getCourses" THEN "courses" ELSE state.courseId,
   pageToken |-> state.pageToken]

\* the function returns value to its caller
returned(state, value) ==
  [state EXCEPT !.outcome = "returned", !.value = value, !.fn = "none"]

\* the function rejects with the error of the request
rejected(state) ==
  [state EXCEPT !.outcome = "rejected", !.value = "request failed", !.fn = "none"]

\* the for loop of getAllStudents from index i (0-based): the next call of
\* getStudents, or the return after the last course
forCourses(state, i) ==
  IF i < Len(state.courses)
    THEN startPaging([state EXCEPT !.i = i], "getStudents", state.courses[i + 1].id)
    ELSE returned([state EXCEPT !.i = i],
                  [courses |-> state.courses,
                   studentsByCourse |-> state.studentsByCourse])

\* studentsByCourse[course.id] = students, then i++
studentsLoaded(state, students) ==
  forCourses([state EXCEPT !.studentsByCourse =
                             assign(@, state.courses[state.i + 1].id, students)],
             state.i + 1)

\* getCourses or getStudents returns its list: to the caller of the client,
\* or into getAllStudents
pagingDone(state, top) ==
  IF top # "getAllStudents" THEN returned(state, state.all)
  ELSE IF state.fn = "getCourses"
    THEN forCourses([state EXCEPT !.courses = state.all], 0)
    ELSE studentsLoaded(state, state.all)

respondedKeepingToken(state, top, items, nextPageToken) ==
  LET next == [state EXCEPT
                 !.awaiting = FALSE,
                 !.responses = Append(@, [ok |-> TRUE, items |-> items,
                                          nextPageToken |-> nextPageToken]),
                 !.all = IF truthy(items) THEN @ \o items.items ELSE @]
  IN  IF truthy(nextPageToken) THEN next ELSE pagingDone(next, top)

\* the rest of the loop body after the response: push the items when the
\* response has them, take the next page token, loop while it is truthy
responded(state, top, items, nextPageToken) ==
  LET next == [state EXCEPT
                 !.awaiting = FALSE,
                 !.responses = Append(@, [ok |-> TRUE, items |-> items,
                                          nextPageToken |-> nextPageToken]),
                 !.all = IF truthy(items) THEN @ \o items.items ELSE @,
                 !.pageToken = nextPageToken]
  IN  IF truthy(nextPageToken) THEN next ELSE pagingDone(next, top)

\* the awaited request rejects: getCourses and getStudents reject with it;
\* getAllStudents catches the rejection of getStudents, logs it and takes
\* the course's students to be []
failed(state, top) ==
  LET next == [state EXCEPT !.awaiting = FALSE,
                            !.responses = Append(@, [ok |-> FALSE])]
  IN  IF top = "getAllStudents" /\ state.fn = "getStudents"
        THEN studentsLoaded([next EXCEPT !.errorsLogged = @ + 1], <<>>)
        ELSE rejected(next)

\* ------------------------------------------------------------------------
\* The extension's storage of extractions (content.js)
\* ------------------------------------------------------------------------

\* 'Keep last 30 extractions'
HistoryLimit == 30

\* `${s.studentName}-${s.courseId}-${s.period}-${s.day}`
studentKey(s) ==
  s.studentName \o <<"-">> \o s.courseId \o <<"-">> \o s.period \o <<"-">> \o s.day

\* the loop over data.students: a student is pushed unless its key is seen
RECURSIVE mergeStudents(_, _)
mergeStudents(mergedStudents, students) ==
  IF students = <<>> THEN mergedStudents
  ELSE mergeStudents(
         IF \E i \in 1..Len(mergedStudents) :
              studentKey(mergedStudents[i]) = studentKey(students[1])
           THEN mergedStudents
           ELSE Append(mergedStudents, students[1]),
         Tail(students))

unshiftHistoryOldestFirst(history, data) ==
  LET longer == history \o <<[date |-> data.date, dayType |-> data.dayType,
                              extractedAt |-> data.extractedAt,
                              recordCount |-> data.recordCount]>>
  IN  IF Len(longer) > HistoryLimit THEN SubSeq(longer, 1, HistoryLimit) ELSE longer

\* history.unshift(entry), then history.length = 30 when it is longer
unshiftHistory(history, data) ==
  LET longer == <<[date |-> data.date, dayType |-> data.dayType,
                   extractedAt |-> data.extractedAt,
                   recordCount |-> data.recordCount]>> \o history
  IN  IF Len(longer) > HistoryLimit THEN SubSeq(longer, 1, HistoryLimit) ELSE longer

\* result.frontlineHistory || []
historyRead(stored) ==
  IF truthy(stored.frontlineHistory) THEN stored.frontlineHistory.items ELSE <<>>

\* [...(existing.students || [])] of result.frontlineData || { students: [] }
studentsRead(stored) ==
  IF stored.frontlineData # undefinedValue
    THEN IF truthy(stored.frontlineData.students)
           THEN stored.frontlineData.students.items ELSE <<>>
    ELSE <<>>

\* the callback of chrome.storage.local.get: the items it gives to
\* chrome.storage.local.set, from what was read and the data to save
callback(stored, data, now) ==
  LET history == unshiftHistory(historyRead(stored), data)
      mergedStudents == mergeStudents(studentsRead(stored), data.students.items)
  IN  [frontlineData |->
         [date |-> data.date, dayType |-> data.dayType,
          extractedAt |-> data.extractedAt,
          students |-> arrayValue(mergedStudents),
          recordCount |-> Len(mergedStudents),
          lastExtracted |-> data.extractedAt,
          extractionCount |-> Len(history)],
       frontlineHistory |-> arrayValue(history),
       lastExtracted |-> now]

\* !data || !data.students
nothingToSave(data) == data = nullValue \/ ~truthy(data.students)

\* saveToStorage up to its call of chrome.storage.local.get: the invocation
\* it adds to those in progress
invocation(data) ==
  [data |-> data,
   pc |-> IF nothingToSave(data) THEN "returned" ELSE "get",
   items |-> undefinedValue]

\* ------------------------------------------------------------------------
\* The multi-day extraction of the content script (extractMultipleDays)
\* ------------------------------------------------------------------------

\* CONFIG.uniqueDaysNeeded and CONFIG.maxDaysBack
CONFIG == [uniqueDaysNeeded |-> 3, maxDaysBack |-> 21]

isWeekendSundayOnly(date) == date.day = 0

\* a date is the number of days it lies before today and its day of the
\* week (getDay: Sunday is 0, Saturday is 6)
isWeekend(date) == date.day = 0 \/ date.day = 6

\* currentDate.setDate(currentDate.getDate() - 1)
dayBefore(date) == [daysBack |-> date.daysBack + 1, day |-> (date.day + 6) % 7]

\* the characters of the keys in the order of their code units
CodeUnitOrder == <<"-">> \o DigitChars \o UpperLetters \o LowerLetters \o <<"|">>

codeUnit(c) == CHOOSE i \in 1..Len(CodeUnitOrder) : CodeUnitOrder[i] = c

\* a < b as strings: the comparison of the default sort
RECURSIVE codeUnitsBefore(_, _)
codeUnitsBefore(a, b) ==
  IF b = <<>> THEN FALSE
  ELSE IF a = <<>> THEN TRUE
  ELSE IF a[1] = b[1] THEN codeUnitsBefore(Tail(a), Tail(b))
  ELSE codeUnit(a[1]) < codeUnit(b[1])

\* `${student.period || ''}-${student.courseId || student.courseDescription || ''}`
arrangementKey(student) ==
  student.period \o <<"-">>
    \o (IF student.courseId # <<>> THEN student.courseId ELSE student.courseDescription)

\* getClassArrangementSignature: the distinct keys, sorted, joined with '|';
\* null for data without students
getClassArrangementSignature(students) ==
  IF students = <<>> THEN null
  ELSE LET combinations ==
             firstOccurrences([i \in 1..Len(students) |-> arrangementKey(students[i])])
           order == [a \in Range(combinations), b \in Range(combinations) |->
                       IF a = b THEN 0 ELSE IF codeUnitsBefore(a, b) THEN 0 - 1 ELSE 1]
       IN  join(stableSort(combinations, order), <<"|">>)

\* the filter of the compiled result: the first record of every
\* `${s.studentName}-${s.courseId}-${s.period}`
RECURSIVE dedupStudents(_, _)
dedupStudents(students, seen) ==
  IF students = <<>> THEN <<>>
  ELSE LET key == students[1].studentName \o <<"-">> \o students[1].courseId
                    \o <<"-">> \o students[1].period
       IN  IF key \in seen THEN dedupStudents(Tail(students), seen)
           ELSE <<students[1]>> \o dedupStudents(Tail(students), seen \cup {key})

\* the state of extractMultipleDays before chrome.storage.local.get answers
extractionStarted(today) ==
  [pc |-> "config", uniqueDaysNeeded |-> 0,
   currentDate |-> [daysBack |-> 0, day |-> today],
   daysChecked |-> 0, emptyDays |-> 0,
   uniqueArrangements |-> <<>>, allStudents |-> <<>>, value |-> undefinedValue]

\* parseInt(result.dayCount) || CONFIG.uniqueDaysNeeded
configured(state, dayCount) ==
  LET n == parseInt(String(dayCount))
  IN  [state EXCEPT !.pc = "loop",
                    !.uniqueDaysNeeded =
                      IF n.nan \/ n.val = 0 THEN CONFIG.uniqueDaysNeeded ELSE n.val]

\* the condition of the while loop
loops(state) ==
  /\ Len(state.uniqueArrangements) < state.uniqueDaysNeeded
  /\ state.daysChecked < CONFIG.maxDaysBack

\* the result compiled after the loop
compiled(state) ==
  [state EXCEPT
     !.pc = "done",
     !.value = [multiDay |-> TRUE,
                daysChecked |-> state.daysChecked,
                emptyDays |-> state.emptyDays,
                uniqueArrangementsFound |-> Len(state.uniqueArrangements),
                arrangements |-> [k \in 1..Len(state.uniqueArrangements) |->
                                    state.uniqueArrangements[k].info],
                students |-> dedupStudents(state.allStudents, {}),
                recordCount |-> Len(dedupStudents(state.allStudents, {}))]]

\* the loop body from the extraction of the day's data to the step back
dayExtracted(state, students) ==
  LET signature == getClassArrangementSignature(students)
      known == \E k \in 1..Len(state.uniqueArrangements) :
                 state.uniqueArrangements[k].signature = signature
      back == [state EXCEPT !.pc = "loop", !.currentDate = dayBefore(@)]
  IN  IF Len(students) = 0 THEN [back EXCEPT !.emptyDays = @ + 1]
      ELSE IF signature # null /\ signature # <<>> /\ ~known
        THEN [back EXCEPT
                !.uniqueArrangements =
                  Append(@, [signature |-> signature,
                             info |-> [date |-> state.currentDate.daysBack,
                                       dayNumber |-> Len(state.uniqueArrangements) + 1,
                                       recordCount |-> Len(students)]]),
                !.allStudents =
                  @ \o [i \in 1..Len(students) |->
                          [student |-> students[i],
                           studentName |-> students[i].studentName,
                           courseId |-> students[i].courseId,
                           period |-> students[i].period,
                           extractedDate |-> state.currentDate.daysBack,
                           arrangementDay |-> Len(state.uniqueArrangements) + 1]]]
      ELSE back

\* ------------------------------------------------------------------------
\* The extension's comparison (compare.js, RosterCompare.compare)
\* ------------------------------------------------------------------------

\* a || b for strings
orElse(a, b) == IF a # <<>> THEN a ELSE b

\* set.add(x) on the values of a Set in insertion order
setAdd(values, x) == IF x \in Range(values) THEN values ELSE Append(values, x)

\* the body of the two loops that fill a Map from normalized name to
\* student: the name is normalized, an empty one is skipped, the first
\* record of a name makes the entry, every record adds its course
collectStudent(entries, name, email, courseKey) ==
  LET key == RosterCompare_normalizeName(name)
      known == {k \in 1..Len(entries) : entries[k].key = key}
  IN  IF key = <<>> THEN entries
      ELSE IF known = {}
        THEN Append(entries, [key |-> key, name |-> name, email |-> email,
                              courses |-> <<courseKey>>])
        ELSE [entries EXCEPT ![CHOOSE k \in known : TRUE].courses = setAdd(@, courseKey)]

\* the Map frontlineStudents
RECURSIVE frontlineStudentsMap(_)
frontlineStudentsMap(students) ==
  IF students = <<>> THEN <<>>
  ELSE LET student == students[Len(students)]
       IN  collectStudent(frontlineStudentsMap(SubSeq(students, 1, Len(students) - 1)),
                          orElse(student.studentName, student.teacherName),
                          <<>>,
                          orElse(orElse(student.courseDescription, student.courseId),
                                 <<"U", "n", "k", "n", "o", "w", "n">>))

\* the Map gcStudents
RECURSIVE gcStudentsMap(_)
gcStudentsMap(allStudents) ==
  IF allStudents = <<>> THEN <<>>
  ELSE LET student == allStudents[Len(allStudents)]
       IN  collectStudent(gcStudentsMap(SubSeq(allStudents, 1, Len(allStudents) - 1)),
                          student.name,
                          student.email,
                          orElse(student.courseName, <<"U", "n", "k", "n", "o", "w", "n">>))

\* found: the name is a key of the other Map, or namesMatch accepts it with
\* one of the keys
foundIn(name, others) ==
  \/ \E k \in 1..Len(others) : others[k].key = name
  \/ \E k \in 1..Len(others) : RosterCompare_namesMatch(name, others[k].key)

\* the entries of a Map that are not found in the other
notFoundIn(entries, others) ==
  LET kept[n \in 0..Len(entries)] ==
        IF n = 0 THEN <<>>
        ELSE IF foundIn(entries[n].key, others) THEN kept[n - 1]
        ELSE Append(kept[n - 1], entries[n])
  IN  kept[Len(entries)]

\* the entry pushed to results.missingFromGC
missingEntry(student) ==
  [name |-> student.name, courses |-> student.courses, source |-> "frontline"]

\* the entry pushed to results.extraInGC
extraEntry(student) ==
  [name |-> student.name, email |-> student.email, courses |-> student.courses,
   source |-> "google_classroom"]

\* the issue made of an entry of missingFromGC
missingIssue(s) ==
  [type |-> "missing", severity |-> "error",
   message |-> s.name \o <<" ", "i", "s", " ", "i", "n", " ", "F", "r", "o", "n", "t",
                           "l", "i", "n", "e", " ", "b", "u", "t", " ", "N", "O", "T",
                           " ", "i", "n", " ", "G", "o", "o", "g", "l", "e", " ", "C",
                           "l", "a", "s", "s", "r", "o", "o", "m">>,
   student |-> s.name, email |-> undefinedValue, courses |-> s.courses]

\* the issue made of an entry of extraInGC
extraIssue(s) ==
  [type |-> "extra", severity |-> "warning",
   message |-> s.name \o <<" ", "i", "s", " ", "i", "n", " ", "G", "o", "o", "g", "l",
                           "e", " ", "C", "l", "a", "s", "s", "r", "o", "o", "m", " ",
                           "b", "u", "t", " ", "N", "O", "T", " ", "i", "n", " ", "F",
                           "r", "o", "n", "t", "l", "i", "n", "e">>,
   student |-> s.name, email |-> stringValue(s.email), courses |-> s.courses]

\* the comparator of the sort of the issues: missing first, then by name
compareIssues(a, b) ==
  IF a.type # b.type THEN (IF a.type = "missing" THEN 0 - 1 ELSE 1)
  ELSE localeCompare(a.student, b.student)

sortedIssuesByName(issues) ==
  stableSort(issues,
             [a \in Range(issues), b \in Range(issues) |->
                localeCompare(a.student, b.student)])

\* results.issues.sort(...)
sortedIssues(issues) ==
  stableSort(issues,
             [a \in Range(issues), b \in Range(issues) |-> compareIssues(a, b)])

\* frontlineData.students || [] and gcData.allStudents || []
listOrEmpty(list) == IF truthy(list) THEN list.items ELSE <<>>

\* RosterCompare.compare
RosterCompare_compare(frontlineData, gcData) ==
  LET frontline == frontlineStudentsMap(listOrEmpty(frontlineData.students))
      classroom == gcStudentsMap(listOrEmpty(gcData.allStudents))
      missing == notFoundIn(frontline, classroom)
      extra == notFoundIn(classroom, frontline)
      missingFromGC == [k \in 1..Len(missing) |-> missingEntry(missing[k])]
      extraInGC == [k \in 1..Len(extra) |-> extraEntry(extra[k])]
  IN  [summary |-> [totalFrontline |-> Len(frontline),
                    totalGoogleClassroom |-> Len(classroom),
                    matched |-> Len(frontline) - Len(missing),
                    missingFromGC |-> Len(missing),
                    extraInGC |-> Len(extra),
                    wrongClass |-> 0],
       issues |-> sortedIssues([k \in 1..Len(missingFromGC) |-> missingIssue(missingFromGC[k])]
                               \o [k \in 1..Len(extraInGC) |-> extraIssue(extraInGC[k])]),
       missingFromGC |-> missingFromGC,
       extraInGC |-> extraInGC,
       wrongClass |-> <<>>]

\* ------------------------------------------------------------------------
\* Inputs
\* ------------------------------------------------------------------------

MaxEntries == 3

MaxCourses == 2

MaxGCStudents == 2

MaxTokens == 4

MaxNameTokens == 5

DoeJohn == <<"D", "o", "e", ",", " ", "J", "o", "h", "n">>

SmithJane == <<"S", "m", "i", "t", "h", ",", " ", "J", "a", "n", "e">>

DoeJohnMichael == <<"D", "o", "e", ",", " ", "J", "o", "h", "n", " ", "M", "i", "c", "h", "a", "e", "l">>

LeeAnn == <<"L", "e", "e", ",", " ", "A", "n", "n">>

JohnDoe == <<"J", "o", "h", "n", " ", "D", "o", "e">>

JohnMichaelDoe == <<"J", "o", "h", "n", " ", "M", "i", "c", "h", "a", "e", "l", " ", "D", "o", "e">>

AnnLee == <<"A", "n", "n", " ", "L", "e", "e">>

Chemistry == <<"C", "h", "e", "m", "i", "s", "t", "r", "y">>

Art == <<"A", "r", "t">>

ThreeChemistry == <<"3", " ", "C", "h", "e", "m", "i", "s", "t", "r", "y">>

Period04 == <<"P", "e", "r", "i", "o", "d", " ", "0", "4">>

FrontlineEntry(n, c, p) == [studentName |-> n, course |-> c, period |-> p]

\* rows of a Frontline export: two students of period 3, a second row of
\* the first student with a middle name and a zero-padded period, a row
\* without a period, a row of another period
FrontlinePool ==
  {FrontlineEntry(DoeJohn, Chemistry, <<"3">>),
   FrontlineEntry(SmithJane, Chemistry, <<"3">>),
   FrontlineEntry(DoeJohnMichael, <<>>, <<"0", "3">>),
   FrontlineEntry(SmithJane, Art, <<>>),
   FrontlineEntry(LeeAnn, <<>>, <<"1">>)}

\* Classroom courses: two that carry period 3, one without a period, one of
\* period 0
CoursePool ==
  {[id |-> "c1", name |-> ThreeChemistry],
   [id |-> "c2", name |-> <<"P", "e", "r", "i", "o", "d", " ", "0", "3">>],
   [id |-> "c3", name |-> Chemistry],
   [id |-> "c4", name |-> <<"0", " ", "H", "o", "m", "e", "r", "o", "o", "m">>]}

\* courses of the periods 3, 3 again, 1 and 0
PairingPool ==
  {[id |-> "c1", name |-> ThreeChemistry],
   [id |-> "c2", name |-> <<"P", "e", "r", "i", "o", "d", " ", "0", "3">>],
   [id |-> "c3", name |-> <<"1", " ", "A", "r", "t">>],
   [id |-> "c4", name |-> <<"0", " ", "H", "o", "m", "e", "r", "o", "o", "m">>]}

\* the courses of the comparison runs
ComparePool == {c \in CoursePool : c.id \in {"c1", "c2", "c3"}}

CourseIds == {c.id : c \in CoursePool}

GCNamePool == {JohnDoe, JohnMichaelDoe, AnnLee}

\* the period arguments of findMatchingGCCourse
PeriodPool == {<<"3">>, <<"0", "3">>, <<"7">>, <<>>, <<"0">>}

\* the period arguments of compareForPeriod
ForPeriodPool == {<<"0", "3">>, <<"7">>}

\* the sequences over S of length at most n
SeqsUpTo(S, n) == UNION {[1..k -> S] : k \in 0..n}

Distinct(seq) == \A i, j \in 1..Len(seq) : seq[i] = seq[j] => i = j

CourseLists(pool) == {cs \in SeqsUpTo(pool, MaxCourses) : Distinct(cs)}

noStudents == [id \in CourseIds |-> <<>>]

\* for each way to give at most n students in all to the courses of cs, the
\* map from course id to the students' full names; a course that is not
\* given has none
RECURSIVE studentsFor(_, _)
studentsFor(cs, n) ==
  IF cs = <<>> THEN {noStudents}
  ELSE UNION {
         {[m EXCEPT ![cs[Len(cs)].id] = names] :
            m \in studentsFor(SubSeq(cs, 1, Len(cs) - 1), n - Len(names))}
         : names \in {r \in SeqsUpTo(GCNamePool, n) : Distinct(r)}}

\* the strings made of at most n of the tokens
RECURSIVE tokenStrings(_, _)
tokenStrings(tokens, n) ==
  IF n = 0 THEN {<<>>}
  ELSE LET shorter == tokenStrings(tokens, n - 1)
       IN  shorter \cup {s \o tok : s \in shorter, tok \in tokens}

\* pieces of course names: the word of pattern 2, the letters of patterns 4
\* and 5, digits, white space, brackets, a hyphen and another letter
CourseNameTokens ==
  {<<"p", "e", "r", "i", "o", "d">>, <<"P">>, <<"d">>, <<"0">>, <<"3">>,
   <<" ">>, <<"(">>, <<")">>, <<"-">>, <<"x">>}

\* course names that match two patterns at once, with different captures
SeveralPatterns ==
  {<<"3", " ", "P", "e", "r", "i", "o", "d", " ", "0", "4">>,
   <<"P", "e", "r", "i", "o", "d", " ", "0", "4", " ", "(", "5", ")">>,
   <<"(", "5", ")", " ", "P", "6">>,
   <<"P", "6", " ", "P", "d", " ", "7">>}

CourseNameInputs ==
  tokenStrings(CourseNameTokens, MaxTokens)
    \cup {ThreeChemistry, Period04, Chemistry} \cup SeveralPatterns

\* pieces of student names
NameTokens == {<<"D", "o">>, <<"j">>, <<",">>, <<" ">>, <<"\t">>}

NameInputs ==
  tokenStrings(NameTokens, MaxNameTokens) \cup {DoeJohn, DoeJohnMichael, JohnDoe}

MaxMatchTokens == 2

JaneSmith == <<"J", "a", "n", "e", " ", "S", "m", "i", "t", "h">>

\* "John Doe" with first and last name in each other's place
DoeJohnSwapped == <<"D", "o", "e", " ", "J", "o", "h", "n">>

\* names with nothing after the comma
DoeComma == <<"D", "o", "e", ",">>

XDoeComma == <<"X", " ", "D", "o", "e", ",">>

\* pieces of the names given to the matchers
MatchTokens == {<<"d">>, <<"j">>, <<",">>, <<" ">>}

\* the names given to the two matchers
MatchInputs ==
  tokenStrings(MatchTokens, MaxMatchTokens)
    \cup {DoeJohn, JohnDoe, DoeJohnMichael, JohnMichaelDoe, JaneSmith, SmithJane,
          DoeJohnSwapped, DoeComma, XDoeComma}

\* the rows given to getStudentsForPeriod and getCourseNameForPeriod: those
\* of FrontlinePool and a third student of period 3, once without a course
\* and once with another course
GroupPool ==
  FrontlinePool \cup {FrontlineEntry(LeeAnn, <<>>, <<"3">>),
                      FrontlineEntry(LeeAnn, Art, <<"3">>)}

\* the period arguments of getStudentsForPeriod and getCourseNameForPeriod
GroupPeriodPool == {<<"3">>, <<"0", "3">>, <<"1">>, <<>>, <<"7">>}

\* rows with empty fields: all empty, none empty, no student name, no
\* course and no period, a period that is not a number
EdgePool ==
  {FrontlineEntry(<<>>, <<>>, <<>>),
   FrontlineEntry(DoeJohn, Chemistry, <<"3">>),
   FrontlineEntry(<<>>, Chemistry, <<"3">>),
   FrontlineEntry(SmithJane, <<>>, <<>>),
   FrontlineEntry(LeeAnn, Art, <<"x">>)}

\* a course of period 3 and a course without a name
EdgeCourses ==
  {[id |-> "c1", name |-> ThreeChemistry], [id |-> "c3", name |-> <<>>]}

\* the student lists of a course: none, a student without a name, a student
EdgeRosters == {<<>>, <<<<>>>>, <<JohnDoe>>}

\* the student lists by course: one for each course id, or none for any id
EdgeStudentMaps ==
  {[noStudents EXCEPT !["c1"] = r1, !["c3"] = r3] : r1, r3 \in EdgeRosters}
    \cup {<<>>}

MaxRows == 3

MaxMapRows == 2

MaxMappings == 2

\* rows of a parsed CSV file: two with the same id, one with the number 7 as
\* id and one with the string "7", one with a null id, two without an id
RowPool ==
  {[id |-> stringValue(<<"a">>), name |-> stringValue(<<" ", "A", "n", "n">>)],
   [id |-> stringValue(<<"a">>), name |-> stringValue(<<"B", "o">>)],
   [id |-> numberValue(7), name |-> stringValue(<<>>)],
   [id |-> stringValue(<<"7">>)],
   [id |-> nullValue, name |-> nullValue],
   [name |-> stringValue(<<"B", "o">>)],
   [name |-> numberValue(7)],
   [id |-> stringValue(<<"b">>), name |-> undefinedValue]}

\* the key fields given to deduplicateByKey
KeyFields == {"id", "name"}

\* column mappings: plain, required with a transform, of a column no row
\* has (required and not), and two that share the target of another
MappingPool ==
  {[source |-> "id", target |-> "studentId"],
   [source |-> "name", target |-> "fullName", required |-> TRUE, transform |-> "toLowerCase"],
   [source |-> "email", target |-> "email", required |-> TRUE],
   [source |-> "email", target |-> "studentId", required |-> FALSE],
   [source |-> "name", target |-> "studentId", transform |-> "trim"],
   [source |-> "id", target |-> "fullName", required |-> TRUE]}

\* the students the attendance page shows on a day: none, a class known by
\* its description only, and two classes listed out of order with a student
\* in both
DayPool ==
  {<<>>,
   <<[studentName |-> <<"A", "n", "n">>, period |-> <<"2">>, courseId |-> <<>>, courseDescription |-> <<"A", "r", "t">>]>>,
   <<[studentName |-> <<"A", "n", "n">>, period |-> <<"2">>, courseId |-> <<"c", "2">>, courseDescription |-> <<>>],
     [studentName |-> <<"A", "n", "n">>, period |-> <<"1">>, courseId |-> <<"c", "1">>, courseDescription |-> <<>>],
     [studentName |-> <<"B", "o">>, period |-> <<"2">>, courseId |-> <<"c", "2">>, courseDescription |-> <<>>]>>}

\* the dayCount the popup stored: none, '2', '1', a negative number
DayCounts ==
  {undefinedValue, stringValue(<<"2">>), stringValue(<<"1">>), stringValue(<<"-", "1">>)}

MaxFrontlineRecords == 3

MaxGCRecords == 3

\* records of the Frontline extraction: a student, the same student written
\* differently in another course, a record with a teacher name only, a
\* record with no name, a student who is not in Classroom
ExtractedPool ==
  {[studentName |-> DoeJohn, teacherName |-> <<>>, courseDescription |-> Chemistry, courseId |-> <<>>],
   [studentName |-> <<"d", "o", "e", ",", "J", "O", "H", "N">>, teacherName |-> <<>>, courseDescription |-> <<>>, courseId |-> <<"c", "2">>],
   [studentName |-> <<>>, teacherName |-> LeeAnn, courseDescription |-> <<>>, courseId |-> <<>>],
   [studentName |-> <<>>, teacherName |-> <<>>, courseDescription |-> Art, courseId |-> <<>>],
   [studentName |-> SmithJane, teacherName |-> <<>>, courseDescription |-> Art, courseId |-> <<>>]}

\* students of the Classroom courses: two that are in Frontline, one
\* without a name, two that are not in Frontline
ClassroomPool ==
  {[name |-> JohnDoe, email |-> <<"j", "@", "x">>, courseName |-> Chemistry],
   [name |-> AnnLee, email |-> <<>>, courseName |-> <<>>],
   [name |-> <<>>, email |-> <<"n", "@", "x">>, courseName |-> Art],
   [name |-> <<"B", "o", " ", "X", "i">>, email |-> <<>>, courseName |-> Art],
   [name |-> <<"a", "l", " ", "X", "i">>, email |-> <<>>, courseName |-> Art]}

\* a list that is missing, or a list of at most n of the records
listsOrNone(pool, n) == {undefinedValue} \cup {arrayValue(l) : l \in SeqsUpTo(pool, n)}

MaxSaves == 3

\* student records of an extraction; the last two differ in name and course
\* and have the same key string
AnnA == [studentName |-> <<"A", "n", "n">>, courseId |-> <<"c">>, period |-> <<"1">>, day |-> <<"A">>]

BoA == [studentName |-> <<"B", "o">>, courseId |-> <<"c">>, period |-> <<"1">>, day |-> <<"A">>]

HyphenName == [studentName |-> <<"a", "-", "b">>, courseId |-> <<"c">>, period |-> <<"1">>, day |-> <<"A">>]

HyphenCourse == [studentName |-> <<"a">>, courseId |-> <<"b", "-", "c">>, period |-> <<"1">>, day |-> <<"A">>]

\* the students lists of the data given to saveToStorage: none, lists of
\* one and two records, a record twice
StudentLists ==
  {undefinedValue, arrayValue(<<>>), arrayValue(<<AnnA>>), arrayValue(<<BoA>>),
   arrayValue(<<HyphenName>>), arrayValue(<<HyphenCourse>>),
   arrayValue(<<AnnA, AnnA>>), arrayValue(<<BoA, AnnA>>)}

\* what extractData gives at time now: null, or data whose extractedAt is
\* the time of the extraction
extractions(now) ==
  {nullValue} \cup
  {[date |-> <<"d">>, dayType |-> <<"A">>, extractedAt |-> now,
    recordCount |-> IF truthy(students) THEN Len(students.items) ELSE 0,
    students |-> students] : students \in StudentLists}

\* a history of n earlier extractions, most recent first
earlierHistory(n) ==
  [k \in 1..n |-> [date |-> <<"d">>, dayType |-> <<"B">>,
                   extractedAt |-> 0 - k, recordCount |-> 1]]

\* what storage holds after n earlier extractions of the one record AnnA
storedAfter(n) ==
  IF n = 0
    THEN [frontlineData |-> undefinedValue, frontlineHistory |-> undefinedValue,
          lastExtracted |-> 0]
    ELSE [frontlineData |->
            [date |-> <<"d">>, dayType |-> <<"B">>, extractedAt |-> 0 - 1,
             students |-> arrayValue(<<AnnA>>), recordCount |-> 1,
             lastExtracted |-> 0 - 1, extractionCount |-> n],
          frontlineHistory |-> arrayValue(earlierHistory(n)),
          lastExtracted |-> 0]

MaxRequests == 4

\* courses and students in the pages the server sends
ApiCourses == {[id |-> "c1", name |-> <<"3", " ", "A">>], [id |-> "c2", name |-> <<"B">>]}

ApiStudents == {"s1", "s2"}

\* the items of one page: the field is missing or holds one item
CoursePages == {undefinedValue} \cup {arrayValue(<<c>>) : c \in ApiCourses}

StudentPages == {undefinedValue} \cup {arrayValue(<<s>>) : s \in ApiStudents}

\* nextPageToken of a response: missing, empty or a token
PageTokens ==
  {undefinedValue, stringValue(<<>>), stringValue(<<"t", "1">>), stringValue(<<"t", "2">>)}

MaxHeaders == 5

\* headers of a CSV file: the OneRoster identifier as OneRoster spells it
\* and as the code spells it, a padded status, the four Frontline headers in
\* mixed case, and one that belongs to neither
HeaderPool ==
  {<<"s", "o", "u", "r", "c", "e", "d", "I", "d">>,
   <<"s", "o", "u", "r", "c", "e", "I", "d">>,
   <<" ", "S", "t", "a", "t", "u", "s", " ">>,
   <<"s", "t", "u", "d", "e", "n", "t", "I", "d">>,
   <<" ", "f", "i", "r", "s", "t", "N", "a", "m", "e">>,
   <<"L", "A", "S", "T", "N", "A", "M", "E">>,
   <<"e", "m", "a", "i", "l">>,
   <<"g", "r", "a", "d", "e">>}

MaxValidateRows == 3

MaxRequiredFields == 2

MaxValidators == 2

\* rows to validate: complete, with an empty id and a malformed email, with
\* no id and a null email, with a null id and a blank email, and with the
\* number 0 as id and an undefined email
ValidateRowPool ==
  {[id |-> stringValue(<<"a">>), email |-> stringValue(<<"a", "@", "b", ".", "c">>)],
   [id |-> stringValue(<<>>), email |-> stringValue(<<"a", "@", "b">>)],
   [email |-> nullValue],
   [id |-> nullValue, email |-> stringValue(<<" ">>)],
   [id |-> numberValue(0), email |-> undefinedValue]}

ValidateFields == {"id", "email"}

ValidatorPool == {"emailValidator", "emptyMessage", "rejectUndefined"}

\* the entries of a customValidators object: no field twice
ValidatorLists ==
  {entries \in SeqsUpTo([field : ValidateFields, validator : ValidatorPool],
                        MaxValidators) :
     \A i, j \in 1..Len(entries) : entries[i].field = entries[j].field => i = j}

\* ------------------------------------------------------------------------
\* The state machine: the inputs of one call, the call, what it returned
\* ------------------------------------------------------------------------

VARIABLES
  frontlineStudents,   \* the Frontline rows given to the engine
  gcCourses,           \* the Classroom courses given to the engine
  gcStudentsByCourse,  \* course id -> the full names of the course's students
  arg,                 \* the string argument of the call
  call,                \* the function that has returned, "none" before the call
  result               \* what it returned

vars == <<frontlineStudents, gcCourses, gcStudentsByCourse, arg, call, result>>

NotCalled == call = "none" /\ result = <<>>

\* a reconciliation run: any rows, any distinct courses, students in the
\* courses given
Init ==
  /\ frontlineStudents \in {rows \in SeqsUpTo(FrontlinePool, MaxEntries) : Distinct(rows)}
  /\ gcCourses \in CourseLists(ComparePool)
  /\ gcStudentsByCourse \in studentsFor(gcCourses, MaxGCStudents)
  /\ arg = <<>>
  /\ NotCalled

CompareRosters ==
  /\ call = "none"
  /\ result' \in compareRosters(frontlineStudents, gcCourses, gcStudentsByCourse)
  /\ call' = "compareRosters"
  /\ UNCHANGED <<frontlineStudents, gcCourses, gcStudentsByCourse, arg>>

CompareForPeriod ==
  /\ call = "none"
  /\ \E period \in ForPeriodPool,
        gcNames \in {gcStudentsByCourse[gcCourses[i].id] : i \in 1..Len(gcCourses)} :
       /\ arg' = period
       /\ result' = compareForPeriod(frontlineStudents, period, gcNames)
  /\ call' = "compareForPeriod"
  /\ UNCHANGED <<frontlineStudents, gcCourses, gcStudentsByCourse>>

Next == CompareRosters \/ CompareForPeriod

Spec == Init /\ [][Next]_vars

\* findMatchingGCCourse on any period and any distinct courses
InitCourse ==
  /\ frontlineStudents = <<>>
  /\ gcCourses \in CourseLists(CoursePool)
  /\ gcStudentsByCourse = noStudents
  /\ arg \in PeriodPool
  /\ NotCalled

FindMatchingGCCourse ==
  /\ call = "none"
  /\ result' = findMatchingGCCourse(arg, gcCourses)
  /\ call' = "findMatchingGCCourse"
  /\ UNCHANGED <<frontlineStudents, gcCourses, gcStudentsByCourse, arg>>

NextCourse == FindMatchingGCCourse

SpecCourse == InitCourse /\ [][NextCourse]_vars

\* extractPeriodFromGCName and normalizePeriod on any string
InitPeriod ==
  /\ frontlineStudents = <<>>
  /\ gcCourses = <<>>
  /\ gcStudentsByCourse = noStudents
  /\ arg \in CourseNameInputs
  /\ NotCalled

ExtractPeriodFromGCName ==
  /\ call = "none"
  /\ result' = extractPeriodFromGCName(arg)
  /\ call' = "extractPeriodFromGCName"
  /\ UNCHANGED <<frontlineStudents, gcCourses, gcStudentsByCourse, arg>>

NormalizePeriod ==
  /\ call = "none"
  /\ result' = normalizePeriod(arg)
  /\ call' = "normalizePeriod"
  /\ UNCHANGED <<frontlineStudents, gcCourses, gcStudentsByCourse, arg>>

NextPeriod == ExtractPeriodFromGCName \/ NormalizePeriod

SpecPeriod == InitPeriod /\ [][NextPeriod]_vars

\* normalizeName on any string
InitName ==
  /\ frontlineStudents = <<>>
  /\ gcCourses = <<>>
  /\ gcStudentsByCourse = noStudents
  /\ arg \in NameInputs
  /\ NotCalled

NormalizeName ==
  /\ call = "none"
  /\ result' = normalizeName(arg)
  /\ call' = "normalizeName"
  /\ UNCHANGED <<frontlineStudents, gcCourses, gcStudentsByCourse, arg>>

NextName == NormalizeName

SpecName == InitName /\ [][NextName]_vars

\* the two name matchers on any pair of names
InitMatch ==
  /\ frontlineStudents = <<>>
  /\ gcCourses = <<>>
  /\ gcStudentsByCourse = noStudents
  /\ arg \in MatchInputs \X MatchInputs
  /\ NotCalled

NamesMatch ==
  /\ call = "none"
  /\ result' = namesMatch(arg[1], arg[2])
  /\ call' = "namesMatch"
  /\ UNCHANGED <<frontlineStudents, gcCourses, gcStudentsByCourse, arg>>

RosterCompareNamesMatch ==
  /\ call = "none"
  /\ result' = RosterCompare_namesMatch(arg[1], arg[2])
  /\ call' = "RosterCompare.namesMatch"
  /\ UNCHANGED <<frontlineStudents, gcCourses, gcStudentsByCourse, arg>>

NextMatch == NamesMatch \/ RosterCompareNamesMatch

SpecMatch == InitMatch /\ [][NextMatch]_vars

\* the grouping of the rows by period
InitGroup ==
  /\ frontlineStudents \in SeqsUpTo(GroupPool, MaxEntries)
  /\ gcCourses = <<>>
  /\ gcStudentsByCourse = noStudents
  /\ arg \in GroupPeriodPool
  /\ NotCalled

GetStudentsForPeriod ==
  /\ call = "none"
  /\ result' = getStudentsForPeriod(frontlineStudents, arg)
  /\ call' = "getStudentsForPeriod"
  /\ UNCHANGED <<frontlineStudents, gcCourses, gcStudentsByCourse, arg>>

GetCourseNameForPeriod ==
  /\ call = "none"
  /\ result' = getCourseNameForPeriod(frontlineStudents, arg)
  /\ call' = "getCourseNameForPeriod"
  /\ UNCHANGED <<frontlineStudents, gcCourses, gcStudentsByCourse, arg>>

NextGroup == GetStudentsForPeriod \/ GetCourseNameForPeriod

SpecGroup == InitGroup /\ [][NextGroup]_vars

\* compareRosters on rows, courses and students with empty fields
InitEdge ==
  /\ frontlineStudents \in SeqsUpTo(EdgePool, MaxEntries)
  /\ gcCourses \in CourseLists(EdgeCourses)
  /\ gcStudentsByCourse \in EdgeStudentMaps
  /\ arg = <<>>
  /\ NotCalled

NextEdge == CompareRosters

\* a reconciliation run with courses of several periods
InitPairing ==
  /\ frontlineStudents \in {rows \in SeqsUpTo(FrontlinePool, MaxEntries) : Distinct(rows)}
  /\ gcCourses \in CourseLists(PairingPool)
  /\ gcStudentsByCourse \in studentsFor(gcCourses, MaxGCStudents)
  /\ arg = <<>>
  /\ NotCalled

NextPairing == CompareRosters

SpecPairing == InitPairing /\ [][NextPairing]_vars

SpecEdge == InitEdge /\ [][NextEdge]_vars

\* deduplicateByKey on any rows and key field
InitDedup ==
  /\ frontlineStudents = <<>>
  /\ gcCourses = <<>>
  /\ gcStudentsByCourse = noStudents
  /\ arg \in [data : SeqsUpTo(RowPool, MaxRows), keyField : KeyFields]
  /\ NotCalled

DeduplicateByKey ==
  /\ call = "none"
  /\ result' = deduplicateByKey(arg.data, arg.keyField)
  /\ call' = "deduplicateByKey"
  /\ UNCHANGED <<frontlineStudents, gcCourses, gcStudentsByCourse, arg>>

NextDedup == DeduplicateByKey

SpecDedup == InitDedup /\ [][NextDedup]_vars

\* mapColumns on any rows and mappings
InitMap ==
  /\ frontlineStudents = <<>>
  /\ gcCourses = <<>>
  /\ gcStudentsByCourse = noStudents
  /\ arg \in [data : SeqsUpTo(RowPool, MaxMapRows),
              mappings : SeqsUpTo(MappingPool, MaxMappings)]
  /\ NotCalled

MapColumns ==
  /\ call = "none"
  /\ result' = mapColumns(arg.data, arg.mappings)
  /\ call' = "mapColumns"
  /\ UNCHANGED <<frontlineStudents, gcCourses, gcStudentsByCourse, arg>>

NextMap == MapColumns

SpecMap == InitMap /\ [][NextMap]_vars

\* validateCSVData on any rows, required fields and validators
InitValidate ==
  /\ frontlineStudents = <<>>
  /\ gcCourses = <<>>
  /\ gcStudentsByCourse = noStudents
  /\ arg \in [data : SeqsUpTo(ValidateRowPool, MaxValidateRows),
              requiredFields : SeqsUpTo(ValidateFields, MaxRequiredFields),
              customValidators : ValidatorLists]
  /\ NotCalled

ValidateCSVData ==
  /\ call = "none"
  /\ result' = validateCSVData(arg.data, arg.requiredFields, arg.customValidators)
  /\ call' = "validateCSVData"
  /\ UNCHANGED <<frontlineStudents, gcCourses, gcStudentsByCourse, arg>>

NextValidate == ValidateCSVData

SpecValidate == InitValidate /\ [][NextValidate]_vars

\* detectCSVFormat on any header list
InitFormat ==
  /\ frontlineStudents = <<>>
  /\ gcCourses = <<>>
  /\ gcStudentsByCourse = noStudents
  /\ arg \in SeqsUpTo(HeaderPool, MaxHeaders)
  /\ NotCalled

DetectCSVFormat ==
  /\ call = "none"
  /\ result' = detectCSVFormat(arg)
  /\ call' = "detectCSVFormat"
  /\ UNCHANGED <<frontlineStudents, gcCourses, gcStudentsByCourse, arg>>

NextFormat == DetectCSVFormat

SpecFormat == InitFormat /\ [][NextFormat]_vars

\* the API client: one call of getCourses, getStudents or getAllStudents
\* against a server that answers each request with a page or a failure
InitApi ==
  /\ frontlineStudents = <<>>
  /\ gcCourses = <<>>
  /\ gcStudentsByCourse = noStudents
  /\ arg \in [initialized : BOOLEAN, courseId : {"c1"}]
  /\ NotCalled

GetCourses ==
  /\ call = "none"
  /\ call' = "getCourses"
  /\ result' = IF arg.initialized THEN started("getCourses", "none") ELSE notInitialized
  /\ UNCHANGED <<frontlineStudents, gcCourses, gcStudentsByCourse, arg>>

GetStudents ==
  /\ call = "none"
  /\ call' = "getStudents"
  /\ result' = IF arg.initialized THEN started("getStudents", arg.courseId)
               ELSE notInitialized
  /\ UNCHANGED <<frontlineStudents, gcCourses, gcStudentsByCourse, arg>>

GetAllStudents ==
  /\ call = "none"
  /\ call' = "getAllStudents"
  /\ result' = IF arg.initialized THEN started("getCourses", "none") ELSE notInitialized
  /\ UNCHANGED <<frontlineStudents, gcCourses, gcStudentsByCourse, arg>>

Running == call \in {"getCourses", "getStudents", "getAllStudents"} /\ result.outcome = "running"

\* await gapiClient.request(...)
SendRequest ==
  /\ Running
  /\ ~result.awaiting
  /\ Len(result.requests) < MaxRequests
  /\ result' = [result EXCEPT !.awaiting = TRUE, !.requests = Append(@, requestOf(result))]
  /\ UNCHANGED <<frontlineStudents, gcCourses, gcStudentsByCourse, arg, call>>

\* the server answers with a page
ReceiveResponse ==
  /\ Running
  /\ result.awaiting
  /\ \E items \in IF result.fn = "getCourses" THEN CoursePages ELSE StudentPages :
       \E nextPageToken \in PageTokens :
         result' = responded(result, call, items, nextPageToken)
  /\ UNCHANGED <<frontlineStudents, gcCourses, gcStudentsByCourse, arg, call>>

\* the request fails: no network, or the token is refused
RequestFails ==
  /\ Running
  /\ result.awaiting
  /\ result' = failed(result, call)
  /\ UNCHANGED <<frontlineStudents, gcCourses, gcStudentsByCourse, arg, call>>

NextApi ==
  \/ GetCourses
  \/ GetStudents
  \/ GetAllStudents
  \/ SendRequest
  \/ ReceiveResponse
  \/ RequestFails

SpecApi == InitApi /\ [][NextApi]_vars

\* the extension's storage: saveToStorage invocations, the reads and the
\* writes of chrome.storage.local they wait for
InitSave ==
  /\ frontlineStudents = <<>>
  /\ gcCourses = <<>>
  /\ gcStudentsByCourse = noStudents
  /\ arg \in {storedAfter(n) : n \in {0, HistoryLimit - 1, HistoryLimit}}
  /\ call = "none"
  /\ result = [stored |-> arg, invocations |-> <<>>, now |-> 1]

\* the invocations whose read or write is outstanding
inProgress == {p \in 1..Len(result.invocations) : result.invocations[p].pc \in {"get", "set"}}

\* saveToStorage(data), called when no other invocation is in progress
SaveToStorage ==
  /\ Len(result.invocations) < MaxSaves
  /\ inProgress = {}
  /\ \E data \in extractions(result.now) :
       result' = [result EXCEPT !.invocations = Append(@, invocation(data)),
                                !.now = @ + 1]
  /\ call' = "saveToStorage"
  /\ UNCHANGED <<frontlineStudents, gcCourses, gcStudentsByCourse, arg>>

\* saveToStorage(data), called while other invocations may be in progress
SaveToStorageMeanwhile ==
  /\ Len(result.invocations) < MaxSaves
  /\ \E data \in extractions(result.now) :
       result' = [result EXCEPT !.invocations = Append(@, invocation(data)),
                                !.now = @ + 1]
  /\ call' = "saveToStorage"
  /\ UNCHANGED <<frontlineStudents, gcCourses, gcStudentsByCourse, arg>>

\* chrome.storage.local.get completes for an invocation: its callback runs
\* on what storage holds and calls chrome.storage.local.set
GetCompletes ==
  /\ \E p \in inProgress :
       /\ result.invocations[p].pc = "get"
       /\ result' = [result EXCEPT
                       !.invocations[p].pc = "set",
                       !.invocations[p].items =
                         callback(result.stored, result.invocations[p].data, result.now),
                       !.now = @ + 1]
  /\ UNCHANGED <<frontlineStudents, gcCourses, gcStudentsByCourse, arg, call>>

\* chrome.storage.local.set completes for an invocation
SetCompletes ==
  /\ \E p \in inProgress :
       /\ result.invocations[p].pc = "set"
       /\ result' = [result EXCEPT
                       !.invocations[p].pc = "done",
                       !.stored = result.invocations[p].items]
  /\ UNCHANGED <<frontlineStudents, gcCourses, gcStudentsByCourse, arg, call>>

NextSave == SaveToStorage \/ GetCompletes \/ SetCompletes

SpecSave == InitSave /\ [][NextSave]_vars

InitOverlap ==
  /\ frontlineStudents = <<>>
  /\ gcCourses = <<>>
  /\ gcStudentsByCourse = noStudents
  /\ arg = storedAfter(0)
  /\ call = "none"
  /\ result = [stored |-> arg, invocations |-> <<>>, now |-> 1]

NextOverlap == SaveToStorageMeanwhile \/ GetCompletes \/ SetCompletes

SpecOverlap == InitOverlap /\ [][NextOverlap]_vars

\* extractMultipleDays from any day of the week, with any stored dayCount,
\* on a page that shows any of the days' students for each date
InitDays ==
  /\ frontlineStudents = <<>>
  /\ gcCourses = <<>>
  /\ gcStudentsByCourse = noStudents
  /\ arg \in [today : 0..6, dayCount : DayCounts]
  /\ call = "none"
  /\ result = <<>>

ExtractMultipleDays ==
  /\ call = "none"
  /\ call' = "extractMultipleDays"
  /\ result' = extractionStarted(arg.today)
  /\ UNCHANGED <<frontlineStudents, gcCourses, gcStudentsByCourse, arg>>

Extracting(pc) == call = "extractMultipleDays" /\ result.pc = pc

\* chrome.storage.local.get(['dayCount']) answers
ConfigRead ==
  /\ Extracting("config")
  /\ result' = configured(result, arg.dayCount)
  /\ UNCHANGED <<frontlineStudents, gcCourses, gcStudentsByCourse, arg, call>>

\* the loop meets a Saturday or Sunday
SkipWeekend ==
  /\ Extracting("loop")
  /\ loops(result)
  /\ isWeekend(result.currentDate)
  /\ result' = [result EXCEPT !.currentDate = dayBefore(@)]
  /\ UNCHANGED <<frontlineStudents, gcCourses, gcStudentsByCourse, arg, call>>

\* daysChecked++ and the call of changeDate
CheckDay ==
  /\ Extracting("loop")
  /\ loops(result)
  /\ ~isWeekend(result.currentDate)
  /\ result' = [result EXCEPT !.daysChecked = @ + 1, !.pc = "changing"]
  /\ UNCHANGED <<frontlineStudents, gcCourses, gcStudentsByCourse, arg, call>>

\* changeDate finds no date input: break
ChangeDateFails ==
  /\ Extracting("changing")
  /\ result' = compiled(result)
  /\ UNCHANGED <<frontlineStudents, gcCourses, gcStudentsByCourse, arg, call>>

\* the date is changed, the page has updated, the day's data is extracted
DayExtracted ==
  /\ Extracting("changing")
  /\ \E students \in DayPool : result' = dayExtracted(result, students)
  /\ UNCHANGED <<frontlineStudents, gcCourses, gcStudentsByCourse, arg, call>>

\* the loop ends
Finish ==
  /\ Extracting("loop")
  /\ ~loops(result)
  /\ result' = compiled(result)
  /\ UNCHANGED <<frontlineStudents, gcCourses, gcStudentsByCourse, arg, call>>

NextDays ==
  \/ ExtractMultipleDays
  \/ ConfigRead
  \/ SkipWeekend
  \/ CheckDay
  \/ ChangeDateFails
  \/ DayExtracted
  \/ Finish

\* every await of the function resolves: the storage answers, changeDate
\* returns, waitForUpdate resolves when its timeout has passed
SpecDays == InitDays /\ [][NextDays]_vars /\ WF_vars(NextDays)

\* RosterCompare.compare on any extraction and any Classroom data
InitCompare ==
  /\ frontlineStudents = <<>>
  /\ gcCourses = <<>>
  /\ gcStudentsByCourse = noStudents
  /\ arg \in [frontlineData : [students : listsOrNone(ExtractedPool, MaxFrontlineRecords)],
              gcData : [allStudents : listsOrNone(ClassroomPool, MaxGCRecords)]]
  /\ NotCalled

RosterCompareCompare ==
  /\ call = "none"
  /\ result' = RosterCompare_compare(arg.frontlineData, arg.gcData)
  /\ call' = "RosterCompare.compare"
  /\ UNCHANGED <<frontlineStudents, gcCourses, gcStudentsByCourse, arg>>

NextCompare == RosterCompareCompare

SpecCompare == InitCompare /\ [][NextCompare]_vars




\* ------------------------------------------------------------------------
\* Properties of the reconciliation engine (specification Spec)
\* ------------------------------------------------------------------------

\* the ComparisonResults the call returned
returnedComparisons ==
  IF call = "compareRosters" THEN Range(result.comparisons)
  ELSE IF call = "compareForPeriod" THEN {result}
  ELSE {}

\* the number of places of seq that hold x
occurrences(seq, x) == Cardinality({i \in 1..Len(seq) : seq[i] = x})

\* the sum of a sequence of numbers
RECURSIVE seqSum(_)
seqSum(s) == IF s = <<>> THEN 0 ELSE seqSum(SubSeq(s, 1, Len(s) - 1)) + s[Len(s)]

\* C1: in every ComparisonResult returned by compareRosters or
\* compareForPeriod, each source name is in exactly one of matched and
\* missingFromGC, nothing else is in them, and
\* matched.length + missingFromGC.length = frontlineStudents.length
C1_SourcePartition ==
  \A c \in returnedComparisons :
    /\ Len(c.matched) + Len(c.missingFromGC) = Len(c.frontlineStudents)
    /\ \A n \in Range(c.frontlineStudents) :
         occurrences(c.matched, n) + occurrences(c.missingFromGC, n) = 1
    /\ Range(c.matched) \cup Range(c.missingFromGC) \subseteq Range(c.frontlineStudents)

\* a comparison that has matched and missing names
C1_Witness ==
  /\ call = "compareRosters"
  /\ \E c \in returnedComparisons : c.matched # <<>> /\ c.missingFromGC # <<>>

\* the places of the Classroom names of c that match some source name of c
matchedGCPlaces(c) ==
  {i \in 1..Len(c.gcStudents) :
     \E j \in 1..Len(c.frontlineStudents) :
       namesMatch(c.frontlineStudents[j], c.gcStudents[i])}

\* no name of either side of c matches two names of the other side
oneToOne(c) ==
  /\ \A j \in 1..Len(c.frontlineStudents) :
       Cardinality({i \in 1..Len(c.gcStudents) :
                      namesMatch(c.frontlineStudents[j], c.gcStudents[i])}) <= 1
  /\ \A i \in 1..Len(c.gcStudents) :
       Cardinality({j \in 1..Len(c.frontlineStudents) :
                      namesMatch(c.frontlineStudents[j], c.gcStudents[i])}) <= 1

\* C2 as stated: in every ComparisonResult of compareRosters,
\* matched.length + extraInGC.length = gcStudents.length, also when several
\* names of one side match the same name of the other
C2_Original ==
  call = "compareRosters" =>
    \A c \in returnedComparisons :
      Len(c.matched) + Len(c.extraInGC) = Len(c.gcStudents)

\* C2 amended: gcStudents splits into extraInGC and the names that match
\* some source name, so extraInGC.length plus the number of those names is
\* gcStudents.length; matched.length + extraInGC.length = gcStudents.length
\* when no name matches two names of the other side
C2_PlatformPartition ==
  call = "compareRosters" =>
    \A c \in returnedComparisons :
      /\ Len(c.extraInGC) + Cardinality(matchedGCPlaces(c)) = Len(c.gcStudents)
      /\ c.extraInGC =
           SelectSeq(c.gcStudents,
                     LAMBDA g : \A j \in 1..Len(c.frontlineStudents) :
                                  ~namesMatch(c.frontlineStudents[j], g))
      /\ oneToOne(c) => Len(c.matched) + Len(c.extraInGC) = Len(c.gcStudents)

\* two Classroom names that match the same source name
C2_Witness ==
  /\ call = "compareRosters"
  /\ \E c \in returnedComparisons :
       /\ ~oneToOne(c)
       /\ Len(c.matched) + Len(c.extraInGC) < Len(c.gcStudents)

\* the inputs of the end-to-end scenario of the specification
endToEndInputs ==
  /\ frontlineStudents = <<FrontlineEntry(DoeJohn, Chemistry, <<"3">>),
                           FrontlineEntry(SmithJane, Chemistry, <<"3">>)>>
  /\ gcCourses = <<[id |-> "c1", name |-> ThreeChemistry]>>
  /\ gcStudentsByCourse["c1"] = <<JohnDoe>>

\* C3: for a period with a course, a source name is in matched exactly when
\* it matches a student name of that course, and in missingFromGC otherwise;
\* a Classroom name is in extraInGC exactly when it matches no source name
\* of the period.  Source "Doe, John", "Smith, Jane" of period 3 against
\* "3 Chemistry" with student "John Doe" gives matched "Doe, John", missing
\* "Smith, Jane", no extra.
C3_Classification ==
  call = "compareRosters" =>
    /\ \A c \in returnedComparisons :
         c.gcCourseId # undefinedCourse.id =>
           /\ c.gcStudents = gcStudentsByCourse[c.gcCourseId]
           /\ \A n \in Range(c.frontlineStudents) :
                LET some == \E g \in Range(gcStudentsByCourse[c.gcCourseId]) : namesMatch(n, g)
                IN  /\ n \in Range(c.matched) <=> some
                    /\ n \in Range(c.missingFromGC) <=> ~some
           /\ \A g \in Range(c.gcStudents) :
                g \in Range(c.extraInGC) <=>
                  \A n \in Range(c.frontlineStudents) : ~namesMatch(n, g)
    /\ endToEndInputs =>
         /\ Len(result.comparisons) = 1
         /\ result.comparisons[1].period = <<"3">>
         /\ result.comparisons[1].matched = <<DoeJohn>>
         /\ result.comparisons[1].missingFromGC = <<SmithJane>>
         /\ result.comparisons[1].extraInGC = <<>>
         /\ result.summary.totalMatched = 1
         /\ result.summary.totalMissing = 1
         /\ result.summary.totalExtra = 0

\* the end-to-end scenario has run
C3_Witness == call = "compareRosters" /\ endToEndInputs

\* the normalized periods of the source rows
sourcePeriods ==
  {normalizePeriod(frontlineStudents[i].period) : i \in 1..Len(frontlineStudents)}

\* some course given has a name whose period normalizes to p
someCourseHasPeriod(p) ==
  \E i \in 1..Len(gcCourses) :
    /\ extractPeriodFromGCName(gcCourses[i].name) # null
    /\ normalizePeriod(extractPeriodFromGCName(gcCourses[i].name)) = p

\* the student names of period p, one for each normalized name: that of
\* the first row
firstNamesOf(p) ==
  {frontlineStudents[i].studentName : i \in
     {i \in 1..Len(frontlineStudents) :
        /\ normalizePeriod(frontlineStudents[i].period) = p
        /\ \A j \in 1..(i - 1) :
             normalizePeriod(frontlineStudents[j].period) = p =>
               normalizeName(frontlineStudents[j].studentName)
                 # normalizeName(frontlineStudents[i].studentName)}}

\* the sum, over the comparisons that are unmatched or not, of the length
\* of a list of each
lengthsWhere(diff, unmatched, list(_)) ==
  seqSum([i \in 1..Len(diff.comparisons) |->
            IF (diff.comparisons[i].gcCourseId = undefinedCourse.id) = unmatched
              THEN Len(list(diff.comparisons[i])) ELSE 0])

C5_SummarySums ==
  call = "compareRosters" =>
    LET total(list(_)) ==
          seqSum([i \in 1..Len(result.comparisons) |-> Len(list(result.comparisons[i]))])
    IN  /\ result.summary.totalFrontline = total(LAMBDA c : c.frontlineStudents)
        /\ result.summary.totalGC = total(LAMBDA c : c.gcStudents)
        /\ result.summary.totalMissing = total(LAMBDA c : c.missingFromGC)
        /\ result.summary.totalExtra = total(LAMBDA c : c.extraInGC)
        /\ result.summary.totalMatched = total(LAMBDA c : c.matched)

\* several comparisons, with matched, missing and extra names among them
C5_Witness ==
  /\ call = "compareRosters"
  /\ Len(result.comparisons) >= 2
  /\ result.summary.totalMatched > 0
  /\ result.summary.totalMissing > 0
  /\ result.summary.totalExtra > 0
  /\ Len(result.unmatchedPeriods) > 0

\* C6 as stated: one ComparisonResult for each distinct normalized period
\* of the source rows, and the comparisons ascending by the number of the
\* period, whatever the period strings are
C6_OnePerPeriodAscending ==
  call = "compareRosters" =>
    /\ \A p \in sourcePeriods :
         Cardinality({i \in 1..Len(result.comparisons) : result.comparisons[i].period = p}) = 1
    /\ Len(result.comparisons) = Cardinality(sourcePeriods)
    /\ \A i, j \in 1..Len(result.comparisons) :
         (/\ i < j
          /\ ~parseInt(result.comparisons[i].period).nan
          /\ ~parseInt(result.comparisons[j].period).nan)
           => parseInt(result.comparisons[i].period).val
                <= parseInt(result.comparisons[j].period).val

\* ------------------------------------------------------------------------
\* Properties of findMatchingGCCourse (specification SpecCourse)
\* ------------------------------------------------------------------------

\* the course's name has a period, equal to the target after normalizePeriod
qualifies(course, period) ==
  /\ extractPeriodFromGCName(course.name) # null
  /\ normalizePeriod(extractPeriodFromGCName(course.name)) = normalizePeriod(period)

\* C7: findMatchingGCCourse returns the first course in the order given that
\* qualifies, no course when none does, and never a course whose name has no
\* period
C7_FirstMatch ==
  call = "findMatchingGCCourse" =>
    /\ (\A i \in 1..Len(gcCourses) : ~qualifies(gcCourses[i], arg))
         => result = undefinedCourse
    /\ \A i \in 1..Len(gcCourses) :
         (qualifies(gcCourses[i], arg) /\ \A j \in 1..(i - 1) : ~qualifies(gcCourses[j], arg))
           => result = gcCourses[i]
    /\ result # undefinedCourse => extractPeriodFromGCName(result.name) # null

\* two courses qualify and the first of them is returned
C7_Witness ==
  /\ call = "findMatchingGCCourse"
  /\ Len(gcCourses) = 2
  /\ qualifies(gcCourses[1], arg)
  /\ qualifies(gcCourses[2], arg)
  /\ result = gcCourses[1]

\* ------------------------------------------------------------------------
\* Properties of extractPeriodFromGCName and normalizePeriod (SpecPeriod)
\* ------------------------------------------------------------------------

\* the matches of a pattern made of a word without case, then white space
\* if allowed, then digits: <<start, first digit, last digit>>, the digits
\* taken as far as they go; bounded asks for a word boundary before the
\* word and after the digits
wordNumberMatches(s, word, spaceAllowed, bounded) ==
  {m \in (1..Len(s)) \X (1..Len(s)) \X (1..Len(s)) :
     /\ m[1] + Len(word) <= m[2] /\ m[2] <= m[3]
     /\ \A k \in 1..Len(word) : LowerChar(s[m[1] + k - 1]) = word[k]
     /\ \A k \in (m[1] + Len(word))..(m[2] - 1) : spaceAllowed /\ IsSpace(s[k])
     /\ \A k \in m[2]..m[3] : IsDigit(s[k])
     /\ m[3] = Len(s) \/ ~IsDigit(s[m[3] + 1])
     /\ bounded => /\ m[1] = 1 \/ ~IsWord(s[m[1] - 1])
                   /\ m[3] = Len(s) \/ ~IsWord(s[m[3] + 1])}

\* the digits of the leftmost of the matches, or null
leftmostDigits(s, matches) ==
  IF matches = {} THEN null
  ELSE LET m == CHOOSE m \in matches : \A o \in matches : m[1] <= o[1]
       IN  SubSeq(s, m[2], m[3])

\* pattern 1: a leading integer followed by white space or a hyphen
leadingInteger(s) ==
  LET ends == {k \in 1..(Len(s) - 1) :
                 /\ \A i \in 1..k : IsDigit(s[i])
                 /\ IsSpace(s[k + 1]) \/ s[k + 1] = "-"}
  IN  IF ends = {} THEN null ELSE SubSeq(s, 1, SetMax(ends))

\* pattern 3: an integer in parentheses
parenthesizedInteger(s) ==
  LET inner == wordNumberMatches(s, <<"(">>, FALSE, FALSE)
  IN  leftmostDigits(s, {m \in inner : m[3] < Len(s) /\ s[m[3] + 1] = ")"})

\* the five patterns as the claim words them, in its order; the fifth with
\* or without word boundaries
statedCaptures(s, fifthBounded) ==
  <<leadingInteger(s),
    leftmostDigits(s, wordNumberMatches(s, <<"p", "e", "r", "i", "o", "d">>, TRUE, FALSE)),
    parenthesizedInteger(s),
    leftmostDigits(s, wordNumberMatches(s, <<"p">>, FALSE, TRUE)),
    leftmostDigits(s, wordNumberMatches(s, <<"p", "d">>, TRUE, fifthBounded))>>

\* result is the capture of the first of the patterns that matches arg, and
\* null when none does
firstStatedCapture(fifthBounded) ==
  LET caps == statedCaptures(arg, fifthBounded)
  IN  /\ \A k \in 1..5 :
           (caps[k] # null /\ \A j \in 1..(k - 1) : caps[j] = null) => result = caps[k]
      /\ (\A k \in 1..5 : caps[k] = null) => result = null

\* the examples of the claim
periodExamples ==
  /\ arg = ThreeChemistry => result = <<"3">>
  /\ arg = Period04 => result = <<"0", "4">>
  /\ arg = Chemistry => result = null

\* C8 as stated: the capture of the first pattern that matches, in the order
\* leading integer, "period", parenthesized integer, word-bounded "p" and
\* digits, "pd" then optional white space then digits; null when none
C8_Original ==
  call = "extractPeriodFromGCName" => firstStatedCapture(FALSE) /\ periodExamples

\* C8 amended: the same, with the fifth pattern word-bounded like the
\* fourth: "pd" starts at a word boundary and its digits end at one
C8_FirstPattern ==
  call = "extractPeriodFromGCName" => firstStatedCapture(TRUE) /\ periodExamples

\* a name that matches two patterns gives the capture of the earlier one
C8_Witness ==
  /\ call = "extractPeriodFromGCName"
  /\ arg \in SeveralPatterns
  /\ LET caps == statedCaptures(arg, TRUE)
     IN  \E j, k \in 1..5 :
           /\ j < k /\ caps[j] # null /\ caps[k] # null /\ caps[j] # caps[k]
           /\ result = caps[j]

\* C9 as stated: a non-empty string of digits is mapped to the decimal
\* rendering of its integer value, without leading zeros; "0" and "00"
\* give "0"
C9_DigitsRendered ==
  (call = "normalizePeriod" /\ arg # <<>> /\ \A i \in 1..Len(arg) : IsDigit(arg[i]))
    => result = natToString(digitsValue(arg))

\* ------------------------------------------------------------------------
\* Properties of normalizeName (specification SpecName)
\* ------------------------------------------------------------------------

\* the text with its outer white space removed and its inner runs of white
\* space made one space
whitespaceNormalized(s) == collapseWhitespace(trim(s))

\* the first white-space-delimited word of the text
firstWord(s) ==
  LET w == trim(s)
      stops == {i \in 1..Len(w) : IsSpace(w[i])}
  IN  IF stops = {} THEN w ELSE SubSeq(w, 1, SetMin(stops) - 1)

commasOf(s) == {i \in 1..Len(s) : s[i] = ","}

\* "first last" in lower case, last being the text before the first comma
\* and first the first word of the text from there up to the end given
firstLastOf(s, end) ==
  toLowerCase(firstWord(SubSeq(s, SetMin(commasOf(s)) + 1, end))
                \o <<" ">> \o whitespaceNormalized(SubSeq(s, 1, SetMin(commasOf(s)) - 1)))

\* the end of the text between the first comma and the next one
beforeSecondComma(s) ==
  LET later == commasOf(s) \ {SetMin(commasOf(s))}
  IN  IF later = {} THEN Len(s) ELSE SetMin(later) - 1

nameExample == arg = DoeJohnMichael => result = <<"j", "o", "h", "n", " ", "d", "o", "e">>

\* C10 as stated: with a comma, the name becomes "first last" in lower case,
\* last being the text before the first comma and first the first word of
\* all the text after the first comma; without a comma, the trimmed,
\* collapsed, lowercased string
C10_Original ==
  call = "normalizeName" =>
    /\ result = IF commasOf(arg) = {} THEN toLowerCase(whitespaceNormalized(arg))
                ELSE firstLastOf(arg, Len(arg))
    /\ nameExample

\* C10 amended: first is the first word of the text between the first comma
\* and the second comma (the end of the name when there is no second comma)
C10_FirstLast ==
  call = "normalizeName" =>
    /\ result = IF commasOf(arg) = {} THEN toLowerCase(whitespaceNormalized(arg))
                ELSE firstLastOf(arg, beforeSecondComma(arg))
    /\ nameExample

\* a name with two commas and text after each, normalized
C10_Witness ==
  /\ call = "normalizeName"
  /\ Cardinality(commasOf(arg)) = 2
  /\ IsWord(arg[1]) /\ IsWord(arg[Len(arg)])
  /\ result # firstLastOf(arg, Len(arg))
  /\ result = firstLastOf(arg, beforeSecondComma(arg))

\* C11 as stated: the name normalizeName returns has no uppercase letter,
\* no two spaces in a row and no space at its start or end, for every input,
\* also one with nothing before or after its comma; '' gives ''
C11_CanonicalShape ==
  call = "normalizeName" =>
    /\ \A i \in 1..Len(result) : result[i] \notin Range(UpperLetters)
    /\ \A i \in 1..(Len(result) - 1) : ~(IsSpace(result[i]) /\ IsSpace(result[i + 1]))
    /\ result # <<>> => ~IsSpace(result[1]) /\ ~IsSpace(result[Len(result)])
    /\ arg = <<>> => result = <<>>

\* ------------------------------------------------------------------------
\* Properties of the two name matchers (specification SpecMatch)
\* ------------------------------------------------------------------------

\* the white-space-delimited tokens of a name
tokensOf(s) == SelectSeq(split(collapseWhitespace(s), " "), LAMBDA w : w # <<>>)

\* both names have two tokens or more, the same first token and the same
\* last token
sameFirstAndLastToken(t1, t2) ==
  /\ Len(t1) >= 2 /\ Len(t2) >= 2
  /\ t1[1] = t2[1]
  /\ t1[Len(t1)] = t2[Len(t2)]

\* C12 as stated: namesMatch(a, b) is true exactly when the canonical forms
\* of a and b are equal, or both have at least two white-space-delimited
\* tokens with equal first tokens and equal last tokens; "Doe, John" matches
\* "John Doe" and "John Michael Doe" and does not match "Jane Smith"
C12_MatchRule ==
  call = "namesMatch" =>
    /\ result = (\/ normalizeName(arg[1]) = normalizeName(arg[2])
                 \/ sameFirstAndLastToken(tokensOf(normalizeName(arg[1])),
                                          tokensOf(normalizeName(arg[2]))))
    /\ arg = <<DoeJohn, JohnDoe>> => result = TRUE
    /\ arg = <<DoeJohn, JohnMichaelDoe>> => result = TRUE
    /\ arg = <<DoeJohn, JaneSmith>> => result = FALSE

\* C13: both matchers give the same answer for (a, b) and for (b, a)
C13_OrderIndependent ==
  /\ call = "namesMatch" => result = namesMatch(arg[2], arg[1])
  /\ call = "RosterCompare.namesMatch" => result = RosterCompare_namesMatch(arg[2], arg[1])

\* a "Last, First" name and a "First Middle Last" name, matched
C13_Witness ==
  /\ call = "namesMatch"
  /\ arg = <<DoeJohn, JohnMichaelDoe>>
  /\ result = TRUE

\* the first name of one is the last name of the other, both ways
swappedNames(n1, n2) == n1.first = n2.last /\ n1.last = n2.first

\* C14 as stated: RosterCompare.namesMatch accepts every pair of names that
\* the web namesMatch accepts, and any other pair it accepts has the first
\* and last names swapped; also for "Last, First Middle" names
C14_ExtensionExtends ==
  call = "RosterCompare.namesMatch" =>
    /\ namesMatch(arg[1], arg[2]) => result = TRUE
    /\ (result = TRUE /\ ~namesMatch(arg[1], arg[2]))
         => swappedNames(RosterCompare_parseName(arg[1]), RosterCompare_parseName(arg[2]))

\* ------------------------------------------------------------------------
\* Properties of the grouping by period (specification SpecGroup)
\* ------------------------------------------------------------------------

\* row e is of the period asked for
ofPeriodAsked(e) == normalizePeriod(e.period) = normalizePeriod(arg)

\* the place of the first row equal to e
firstPlaceOf(e) ==
  SetMin({k \in 1..Len(frontlineStudents) : frontlineStudents[k] = e})

\* C15: getStudentsForPeriod returns only rows of the period asked for, at
\* most one for each normalized student name, and the row kept for a name
\* is the first row of the period with that name; every name of the period
\* has its row
C15_FirstRowPerName ==
  call = "getStudentsForPeriod" =>
    /\ \A i \in 1..Len(result) :
         /\ ofPeriodAsked(result[i])
         /\ \E k \in 1..Len(frontlineStudents) :
              /\ frontlineStudents[k] = result[i]
              /\ \A j \in 1..(k - 1) :
                   ofPeriodAsked(frontlineStudents[j]) =>
                     normalizeName(frontlineStudents[j].studentName)
                       # normalizeName(result[i].studentName)
    /\ \A i, j \in 1..Len(result) :
         normalizeName(result[i].studentName) = normalizeName(result[j].studentName)
           => i = j
    /\ \A k \in 1..Len(frontlineStudents) :
         ofPeriodAsked(frontlineStudents[k]) =>
           \E i \in 1..Len(result) :
             normalizeName(result[i].studentName)
               = normalizeName(frontlineStudents[k].studentName)

\* two different rows of one student in the period, the first one kept
C15_Witness ==
  /\ call = "getStudentsForPeriod"
  /\ \E j, k \in 1..Len(frontlineStudents) :
       /\ j < k
       /\ ofPeriodAsked(frontlineStudents[j]) /\ ofPeriodAsked(frontlineStudents[k])
       /\ frontlineStudents[j] # frontlineStudents[k]
       /\ normalizeName(frontlineStudents[j].studentName)
            = normalizeName(frontlineStudents[k].studentName)
       /\ frontlineStudents[j] \in Range(result)
       /\ frontlineStudents[k] \notin Range(result)

\* the name lists of a ComparisonResult of the period are those of the rows
\* returned, in their order
listsFollow(c) ==
  /\ c.frontlineStudents = flNamesOf(result)
  /\ c.matched = SelectSeq(c.frontlineStudents, LAMBDA n : n \in Range(c.matched))
  /\ c.missingFromGC = SelectSeq(c.frontlineStudents, LAMBDA n : n \in Range(c.missingFromGC))

\* C16 as stated: the deduplicated rows of a period are in the order of
\* their first appearance in the input, and so are the name lists of the
\* ComparisonResult
C16_Original ==
  call = "getStudentsForPeriod" =>
    /\ \A i, j \in 1..Len(result) :
         i < j => firstPlaceOf(result[i]) < firstPlaceOf(result[j])
    /\ listsFollow(compareForPeriod(frontlineStudents, arg, <<JohnDoe>>))

\* C16 amended: the deduplicated rows of a period are sorted ascending by
\* studentName under localeCompare, whatever their order in the input, and
\* so are the name lists of the ComparisonResult
C16_SortedByName ==
  call = "getStudentsForPeriod" =>
    /\ \A i, j \in 1..Len(result) :
         i < j => localeCompare(result[i].studentName, result[j].studentName) < 0
    /\ listsFollow(compareForPeriod(frontlineStudents, arg, <<JohnDoe>>))

\* rows returned in another order than that of their first appearance
C16_Witness ==
  /\ call = "getStudentsForPeriod"
  /\ \E i, j \in 1..Len(result) :
       i < j /\ firstPlaceOf(result[j]) < firstPlaceOf(result[i])

\* the course labels that are not empty, of the rows of the period in the
\* order the count meets them
labelsCounted ==
  SelectSeq(coursesOf(getStudentsForPeriod(frontlineStudents, arg)),
            LAMBDA c : c # <<>>)

\* the first of the labels that no label outnumbers, '' without labels
majorityLabel(labels) ==
  LET count(c) == Cardinality({i \in 1..Len(labels) : labels[i] = c})
      top == {i \in 1..Len(labels) :
                \A j \in 1..Len(labels) : count(labels[j]) <= count(labels[i])}
  IN  IF top = {} THEN <<>> ELSE labels[SetMin(top)]

\* C17 as stated: getCourseNameForPeriod returns the most frequent of the
\* non-empty course labels of the period, the one met first when several
\* tie; an empty label never wins, and '' is returned only when the period
\* has no non-empty label
C17_MajorityLabel ==
  call = "getCourseNameForPeriod" => result = majorityLabel(labelsCounted)

\* ------------------------------------------------------------------------
\* Properties of compareRosters on empty fields (specification SpecEdge)
\* ------------------------------------------------------------------------

\* a list of strings
isStringList(l) == DOMAIN l = 1..Len(l) /\ \A i \in 1..Len(l) : DOMAIN l[i] = 1..Len(l[i])

\* a RosterDiff: the three parts, name lists in every comparison, counts
isRosterDiff(d) ==
  /\ DOMAIN d = {"comparisons", "unmatchedPeriods", "summary"}
  /\ isStringList(d.unmatchedPeriods)
  /\ \A i \in 1..Len(d.comparisons) :
       /\ isStringList(d.comparisons[i].frontlineStudents)
       /\ isStringList(d.comparisons[i].gcStudents)
       /\ isStringList(d.comparisons[i].missingFromGC)
       /\ isStringList(d.comparisons[i].extraInGC)
       /\ isStringList(d.comparisons[i].matched)
  /\ \A k \in DOMAIN d.summary : d.summary[k] \in Nat

\* C18: compareRosters returns a RosterDiff, never an error, for rows,
\* courses and students whose fields are strings, empty ones included; for
\* no rows at all it returns no comparisons, no unmatched periods and five
\* zero counts, whatever the courses and students
C18_NoError ==
  /\ call = "none" => compareRosters(frontlineStudents, gcCourses, gcStudentsByCourse) # {}
  /\ call = "compareRosters" =>
       /\ isRosterDiff(result)
       /\ frontlineStudents = <<>> =>
            /\ result.comparisons = <<>>
            /\ result.unmatchedPeriods = <<>>
            /\ \A k \in DOMAIN result.summary : result.summary[k] = 0
            /\ DOMAIN result.summary =
                 {"totalFrontline", "totalGC", "totalMissing", "totalExtra", "totalMatched"}

\* rows without a period and without a student name, a course without a
\* name and a student without a name, compared
C18_Witness ==
  /\ call = "compareRosters"
  /\ \E i \in 1..Len(frontlineStudents) :
       frontlineStudents[i].period = <<>> /\ frontlineStudents[i].studentName = <<>>
  /\ \E i \in 1..Len(gcCourses) : gcCourses[i].name = <<>>
  /\ gcStudentsByCourse # <<>> /\ gcStudentsByCourse["c1"] = <<<<>>>>
  /\ Len(result.comparisons) >= 2

\* ------------------------------------------------------------------------
\* C19: deduplicateByKey keeps the first row of each key
\* ------------------------------------------------------------------------

\* the rows of data at the given places, in the order of data
rowsAtPlaces(data, places) ==
  LET taken[n \in 0..Len(data)] ==
        IF n = 0 THEN <<>>
        ELSE IF n \in places THEN Append(taken[n - 1], data[n]) ELSE taken[n - 1]
  IN  taken[Len(data)]

\* the places of data whose key value no earlier row has
firstPlacesOfKeys(data, keyField) ==
  {i \in 1..Len(data) :
     \A j \in 1..(i - 1) : fieldOf(data[j], keyField) # fieldOf(data[i], keyField)}

\* C19: unique holds the first row of every distinct key value, in the order
\* of first appearance; duplicates holds every other row, in input order; and
\* the two lengths add up to the length of data.
C19_FirstOccurrenceKept ==
  call = "deduplicateByKey" =>
    LET firsts == firstPlacesOfKeys(arg.data, arg.keyField)
    IN  /\ result.unique = rowsAtPlaces(arg.data, firsts)
        /\ result.duplicates = rowsAtPlaces(arg.data, (1..Len(arg.data)) \ firsts)
        /\ Len(result.unique) + Len(result.duplicates) = Len(arg.data)
        /\ \A i, j \in 1..Len(result.unique) :
             i # j => fieldOf(result.unique[i], arg.keyField)
                        # fieldOf(result.unique[j], arg.keyField)

\* two different rows are set aside as duplicates and a row without the key
\* field is among the rows given
C19_Witness ==
  /\ call = "deduplicateByKey"
  /\ Len(result.duplicates) = 2
  /\ result.duplicates[1] # result.duplicates[2]
  /\ Len(result.unique) = 1
  /\ \E i \in 1..Len(arg.data) : arg.keyField \notin DOMAIN arg.data[i]

\* ------------------------------------------------------------------------
\* C20: mapColumns
\* ------------------------------------------------------------------------

\* the row has the column of the mapping
columnPresent(row, mapping) == mapping.source \in DOMAIN row

\* the row has the column of the mapping with a value other than undefined
columnDefined(row, mapping) ==
  mapping.source \in DOMAIN row /\ row[mapping.source] # undefinedValue

isRequired(mapping) == "required" \in DOMAIN mapping /\ mapping.required

\* the string value of the source column, after the transform when given
mappedValue(row, mapping) ==
  IF "transform" \in DOMAIN mapping
    THEN applyTransform(mapping.transform, String(row[mapping.source]))
    ELSE String(row[mapping.source])

\* the statement as written, for every mapping on its own
C20_Original ==
  call = "mapColumns" =>
    /\ Len(result) = Len(arg.data)
    /\ \A i \in 1..Len(arg.data) : \A k \in 1..Len(arg.mappings) :
         LET row == arg.data[i]
             mapping == arg.mappings[k]
         IN  IF columnPresent(row, mapping)
               THEN /\ mapping.target \in DOMAIN result[i]
                    /\ result[i][mapping.target] = mappedValue(row, mapping)
               ELSE IF isRequired(mapping)
                 THEN /\ mapping.target \in DOMAIN result[i]
                      /\ result[i][mapping.target] = <<>>
                 ELSE mapping.target \notin DOMAIN result[i]

\* the places of the mappings that write the given target for the row
writersOf(row, mappings, target) ==
  {k \in 1..Len(mappings) :
     /\ mappings[k].target = target
     /\ columnDefined(row, mappings[k]) \/ isRequired(mappings[k])}

\* C20: mapColumns returns one output row per input row, in order; a target
\* is a key of the output row exactly when some mapping with that target has
\* its source column in the row with a value other than undefined, or is
\* required; the target then holds what the last such mapping gives: the
\* string value of its source column (after its transform when given), or
\* the empty string when that column is absent or undefined.
C20_LastWriterPerTarget ==
  call = "mapColumns" =>
    /\ Len(result) = Len(arg.data)
    /\ \A i \in 1..Len(arg.data) :
         LET row == arg.data[i]
             targets == {arg.mappings[k].target : k \in 1..Len(arg.mappings)}
         IN  /\ DOMAIN result[i] =
                  {t \in targets : writersOf(row, arg.mappings, t) # {}}
             /\ \A t \in DOMAIN result[i] :
                  LET last == CHOOSE k \in writersOf(row, arg.mappings, t) :
                                \A l \in writersOf(row, arg.mappings, t) : l <= k
                  IN  result[i][t] =
                        IF columnDefined(row, arg.mappings[last])
                          THEN mappedValue(row, arg.mappings[last])
                          ELSE <<>>

\* two mappings with the same target both write it with different values, and
\* a mapping that is not required finds no column in another row
C20_Witness ==
  /\ call = "mapColumns"
  /\ Len(arg.data) = 2
  /\ Len(arg.mappings) = 2
  /\ arg.mappings[1].target = arg.mappings[2].target
  /\ columnDefined(arg.data[1], arg.mappings[1])
  /\ columnDefined(arg.data[1], arg.mappings[2])
  /\ mappedValue(arg.data[1], arg.mappings[1]) # mappedValue(arg.data[1], arg.mappings[2])
  /\ result[1][arg.mappings[2].target] = mappedValue(arg.data[1], arg.mappings[2])
  /\ ~columnPresent(arg.data[2], arg.mappings[1])
  /\ ~isRequired(arg.mappings[1])

\* ------------------------------------------------------------------------
\* C21: the errors validateCSVData reports
\* ------------------------------------------------------------------------

\* the places of the errors that carry the given row and field
errorsAbout(errors, row, field) ==
  {k \in 1..Len(errors) : errors[k].row = row /\ errors[k].field = field}

\* the message the validator of the entry gives for the row at place i
messageOf(entry, data, i) ==
  callValidator(entry.validator, fieldOf(data[i], entry.field), data[i], i - 1)

validIffNoErrors == result.isValid <=> result.errors = <<>>

inRowOrder ==
  \A k, l \in 1..Len(result.errors) :
    k < l => result.errors[k].row <= result.errors[l].row

\* the statement as written: one error for every required field without a
\* value, one error for every message of a validator that is not null
C21_Original ==
  call = "validateCSVData" =>
    /\ validIffNoErrors
    /\ inRowOrder
    /\ \A i \in 1..Len(arg.data) : \A field \in Range(arg.requiredFields) :
         isMissing(fieldOf(arg.data[i], field)) =>
           Cardinality(errorsAbout(result.errors, i, field)) = 1
    /\ \A i \in 1..Len(arg.data) : \A n \in 1..Len(arg.customValidators) :
         messageOf(arg.customValidators[n], arg.data, i) # null =>
           \E k \in errorsAbout(result.errors, i, arg.customValidators[n].field) :
             /\ "value" \in DOMAIN result.errors[k]
             /\ result.errors[k].message = messageOf(arg.customValidators[n], arg.data, i)

\* C21: isValid is true exactly when errors is empty; errors are listed in
\* row order; for the row at 0-based index i and a field, the errors with
\* row i+1 and that field are one for every time the field is listed in
\* requiredFields when its value is undefined, null or the empty string, and
\* one carrying the message of the field's custom validator when that
\* message is neither null nor the empty string; there are no other errors.
C21_ErrorsReported ==
  call = "validateCSVData" =>
    /\ validIffNoErrors
    /\ inRowOrder
    /\ \A k \in 1..Len(result.errors) :
         /\ result.errors[k].row \in 1..Len(arg.data)
         /\ result.errors[k].field \in ValidateFields
    /\ \A i \in 1..Len(arg.data) : \A field \in ValidateFields :
         LET about == errorsAbout(result.errors, i, field)
             required == {k \in about : "value" \notin DOMAIN result.errors[k]}
             custom == about \ required
             listed == {n \in 1..Len(arg.requiredFields) : arg.requiredFields[n] = field}
             messages ==
               {messageOf(arg.customValidators[n], arg.data, i) :
                  n \in {m \in 1..Len(arg.customValidators) :
                           arg.customValidators[m].field = field}}
                 \ {null, <<>>}
         IN  /\ Cardinality(required) =
                  IF isMissing(fieldOf(arg.data[i], field)) THEN Cardinality(listed) ELSE 0
             /\ Cardinality(custom) = Cardinality(messages)
             /\ \A k \in custom : result.errors[k].message \in messages

\* the second row lacks a required field, which is reported with row 2, and
\* a validator's message is reported for the first row
C21_Witness ==
  /\ call = "validateCSVData"
  /\ Len(arg.data) >= 2
  /\ ~result.isValid
  /\ \E field \in Range(arg.requiredFields) :
       /\ isMissing(fieldOf(arg.data[2], field))
       /\ ~isMissing(fieldOf(arg.data[1], field))
       /\ \E k \in errorsAbout(result.errors, 2, field) :
            "value" \notin DOMAIN result.errors[k]
  /\ \E k \in 1..Len(result.errors) :
       /\ result.errors[k].row = 1
       /\ "value" \in DOMAIN result.errors[k]

\* ------------------------------------------------------------------------
\* C22: detectCSVFormat
\* ------------------------------------------------------------------------

\* the headers with letter case and surrounding white space ignored
headersGiven(headers) == {trim(toLowerCase(trim(headers[i]))) : i \in 1..Len(headers)}

\* sourcedId, status and dateLastModified, in lower case
oneRosterHeaders ==
  {<<"s", "o", "u", "r", "c", "e", "d", "i", "d">>,
   <<"s", "t", "a", "t", "u", "s">>,
   <<"d", "a", "t", "e", "l", "a", "s", "t", "m", "o", "d", "i", "f", "i", "e", "d">>}

\* studentId, firstName, lastName and email, in lower case
frontlineHeaders ==
  {<<"s", "t", "u", "d", "e", "n", "t", "i", "d">>,
   <<"f", "i", "r", "s", "t", "n", "a", "m", "e">>,
   <<"l", "a", "s", "t", "n", "a", "m", "e">>,
   <<"e", "m", "a", "i", "l">>}

\* C22: a header list is 'oneroster' when it has one of sourcedId, status,
\* dateLastModified; otherwise 'frontline' exactly when it has all of
\* studentId, firstName, lastName, email; otherwise 'unknown'.
C22_Classified ==
  call = "detectCSVFormat" =>
    result = IF headersGiven(arg) \cap oneRosterHeaders # {} THEN "oneroster"
             ELSE IF frontlineHeaders \subseteq headersGiven(arg) THEN "frontline"
             ELSE "unknown"

\* ------------------------------------------------------------------------
\* C23: failures of the API client's requests
\* ------------------------------------------------------------------------

clientCalled == call \in {"getCourses", "getStudents", "getAllStudents"}

\* the places of the requests that failed
failures == {k \in 1..Len(result.responses) : ~result.responses[k].ok}

\* C23: when a request of getCourses, getStudents or getAllStudents fails,
\* the call rejects, and no further request is made.
C23_FailurePropagated ==
  clientCalled =>
    \A k \in failures :
      /\ result.outcome = "rejected"
      /\ Len(result.requests) = k

\* ------------------------------------------------------------------------
\* C28: paging of getCourses and getStudents
\* ------------------------------------------------------------------------

pagingCalled == call \in {"getCourses", "getStudents"} /\ arg.initialized

\* the items of the pages received, in page order
RECURSIVE itemsOfPages(_)
itemsOfPages(responses) ==
  IF responses = <<>> THEN <<>>
  ELSE itemsOfPages(SubSeq(responses, 1, Len(responses) - 1))
         \o (IF responses[Len(responses)].ok
                  /\ responses[Len(responses)].items # undefinedValue
               THEN responses[Len(responses)].items.items ELSE <<>>)

\* requests go out one at a time, the first without a page token and each
\* later one with the nextPageToken of the response before it
oneAfterAnother ==
  /\ Len(result.requests) = Len(result.responses) + (IF result.awaiting THEN 1 ELSE 0)
  /\ \A k \in 1..Len(result.requests) :
       /\ result.requests[k].path = IF call = "getCourses" THEN "courses" ELSE arg.courseId
       /\ result.requests[k].pageToken =
            IF k = 1 THEN undefinedValue ELSE result.responses[k - 1].nextPageToken
       /\ k > 1 => result.responses[k - 1].ok

\* the statement as written: the loop ends at the first response without a
\* nextPageToken, and returns only then
C28_Original ==
  pagingCalled =>
    /\ oneAfterAnother
    /\ \A k \in 1..Len(result.responses) :
         result.responses[k].ok /\ result.responses[k].nextPageToken = undefinedValue
           => Len(result.requests) = k /\ result.outcome = "returned"
    /\ result.outcome = "returned" =>
         /\ result.responses[Len(result.responses)].nextPageToken = undefinedValue
         /\ result.value = itemsOfPages(result.responses)

\* C28: getCourses and getStudents issue page requests one after another,
\* each after the first carrying the nextPageToken of the previous
\* response; they stop at the first response whose nextPageToken is missing
\* or the empty string and return the items of all pages in page order;
\* they do not return while every response carries a non-empty
\* nextPageToken.
C28_PagesInOrder ==
  pagingCalled =>
    /\ oneAfterAnother
    /\ \A k \in 1..Len(result.responses) :
         result.responses[k].ok /\ ~truthy(result.responses[k].nextPageToken)
           => Len(result.requests) = k /\ result.outcome = "returned"
    /\ result.outcome = "returned" =>
         /\ ~truthy(result.responses[Len(result.responses)].nextPageToken)
         /\ result.value = itemsOfPages(result.responses)
    /\ \A k \in 1..Len(result.responses) :
         result.responses[k].ok /\ truthy(result.responses[k].nextPageToken)
           /\ k < Len(result.responses)
           => result.requests[k + 1].pageToken = result.responses[k].nextPageToken

\* getStudents has returned the students of three pages
C28_Witness ==
  /\ call = "getStudents"
  /\ result.outcome = "returned"
  /\ Len(result.requests) = 3
  /\ Len(result.value) = 3
  /\ result.requests[3].pageToken = stringValue(<<"t", "2">>)

\* ------------------------------------------------------------------------
\* C24: the stored history of extractions
\* ------------------------------------------------------------------------

\* every call made so far had data with a students list and has completed
allSavesCompleted ==
  /\ call = "saveToStorage"
  /\ \A p \in 1..Len(result.invocations) : result.invocations[p].pc = "done"

storedHistory == result.stored.frontlineHistory.items

\* C24: after completed saveToStorage calls, each with data that has a
\* students list, frontlineHistory has at most 30 entries, most recent
\* first, the entry of the latest call at index 0, and extractionCount is
\* the length of the history.
C24_HistoryBounded ==
  allSavesCompleted =>
    /\ Len(storedHistory) <= 30
    /\ \A i, j \in 1..Len(storedHistory) :
         i < j => storedHistory[i].extractedAt > storedHistory[j].extractedAt
    /\ storedHistory[1].extractedAt =
         result.invocations[Len(result.invocations)].data.extractedAt
    /\ result.stored.frontlineData.extractionCount = Len(storedHistory)

\* two calls have completed on a history that already had 30 entries: the
\* two oldest entries are gone
C24_Witness ==
  /\ allSavesCompleted
  /\ Len(result.invocations) = 2
  /\ truthy(arg.frontlineHistory)
  /\ Len(arg.frontlineHistory.items) = 30
  /\ Len(storedHistory) = 30
  /\ storedHistory[30] = arg.frontlineHistory.items[28]

\* ------------------------------------------------------------------------
\* C25: the stored students after calls made one after another
\* ------------------------------------------------------------------------

storedStudents == studentsRead(result.stored)

\* the (studentName, courseId, period, day) key of a record
keyOf(s) == <<s.studentName, s.courseId, s.period, s.day>>

\* the first list is the second with some records left out
isSubsequence(shorter, longer) ==
  \E places \in SUBSET (1..Len(longer)) : shorter = rowsAtPlaces(longer, places)

\* C25: with calls made one after another, no two stored records have the
\* same (studentName, courseId, period, day); every record of a completed
\* call is stored under its key; recordCount is the length of the stored
\* list; and a write keeps the records stored before it, in their order.
C25_MergedByKey ==
  /\ [](call = "saveToStorage" =>
          /\ \A i, j \in 1..Len(storedStudents) :
               keyOf(storedStudents[i]) = keyOf(storedStudents[j]) => i = j
          /\ \A p \in 1..Len(result.invocations) :
               result.invocations[p].pc = "done" =>
                 \A n \in 1..Len(result.invocations[p].data.students.items) :
                   \E i \in 1..Len(storedStudents) :
                     keyOf(storedStudents[i])
                       = keyOf(result.invocations[p].data.students.items[n])
          /\ result.stored.frontlineData # undefinedValue =>
               result.stored.frontlineData.recordCount = Len(storedStudents))
  /\ [][call = "saveToStorage" =>
          isSubsequence(storedStudents, studentsRead(result.stored'))]_vars

\* ------------------------------------------------------------------------
\* C26: overlapping saveToStorage invocations
\* ------------------------------------------------------------------------

\* the invocations that had something to save
savingInvocations ==
  {p \in 1..Len(result.invocations) : result.invocations[p].pc # "returned"}

\* C26: when invocations overlap, after all writes have completed the
\* stored students hold, by key, every record given to any invocation, and
\* the history has one entry for each invocation.
C26_NoLostUpdate ==
  call = "saveToStorage" /\ inProgress = {} =>
    /\ \A p \in savingInvocations :
         \A n \in 1..Len(result.invocations[p].data.students.items) :
           \E i \in 1..Len(storedStudents) :
             studentKey(storedStudents[i])
               = studentKey(result.invocations[p].data.students.items[n])
    /\ savingInvocations # {} =>
         \A p \in savingInvocations :
           \E k \in 1..Len(storedHistory) :
             storedHistory[k].extractedAt = result.invocations[p].data.extractedAt

\* ------------------------------------------------------------------------
\* C27: the search loop of extractMultipleDays
\* ------------------------------------------------------------------------

extractionCalled == call = "extractMultipleDays"

\* the day of the week of the date that lies daysBack days before today
dayOfWeekOf(daysBack) == (arg.today + 35 - daysBack) % 7

arrangementsFound == Len(result.uniqueArrangements)

\* no Saturday or Sunday is counted, and none is extracted
weekdaysOnly ==
  /\ [][extractionCalled /\ result'.daysChecked > result.daysChecked
          => ~isWeekend(result.currentDate) /\ result'.currentDate = result.currentDate]_vars
  /\ [](extractionCalled =>
          \A k \in 1..arrangementsFound :
            dayOfWeekOf(result.uniqueArrangements[k].info.date) \in 1..5)

\* once uniqueDaysNeeded signatures are recorded, the loop's next step ends it
stopsWhenFound ==
  [][extractionCalled /\ result.pc = "loop"
       /\ arrangementsFound >= result.uniqueDaysNeeded
       => result'.pc = "done" /\ result'.daysChecked = result.daysChecked]_vars

extractionEnds == <>(extractionCalled /\ result.pc = "done")

\* the statement as written
C27_Original ==
  /\ extractionEnds
  /\ weekdaysOnly
  /\ stopsWhenFound
  /\ [](extractionCalled =>
          /\ result.daysChecked <= 21
          /\ arrangementsFound <= result.uniqueDaysNeeded)

\* C27: the search loop always terminates; it ends with daysChecked <= 21,
\* never counts or extracts a Saturday or Sunday, stops as soon as
\* uniqueDaysNeeded distinct signatures are recorded, and records at most
\* uniqueDaysNeeded signatures, none when uniqueDaysNeeded is negative.
C27_LoopTerminates ==
  /\ extractionEnds
  /\ weekdaysOnly
  /\ stopsWhenFound
  /\ [](extractionCalled =>
          /\ result.daysChecked <= 21
          /\ arrangementsFound <= IF result.uniqueDaysNeeded < 0 THEN 0
                                  ELSE result.uniqueDaysNeeded
          /\ \A i, j \in 1..arrangementsFound :
               result.uniqueArrangements[i].signature
                 = result.uniqueArrangements[j].signature => i = j)

\* the loop has ended on the second arrangement, before the 21st day, after
\* a weekend, a day without classes and a repeated arrangement
C27_Witness ==
  /\ extractionCalled
  /\ result.pc = "done"
  /\ result.uniqueDaysNeeded = 2
  /\ arrangementsFound = 2
  /\ result.emptyDays = 1
  /\ result.daysChecked = 4
  /\ result.currentDate.daysBack = 6

\* ------------------------------------------------------------------------
\* C29: periods and courses are paired one to one
\* ------------------------------------------------------------------------

\* the comparison carries a gcCourseId
hasCourse(comparison) == comparison.gcCourseId # undefinedCourse.id

\* the ids of the courses that are the matched course of a comparison
matchedCourseIds ==
  {result.comparisons[i].gcCourseId :
     i \in {k \in 1..Len(result.comparisons) : hasCourse(result.comparisons[k])}}

frontlineNamesGiven ==
  LET students == IF arg.frontlineData.students = undefinedValue THEN <<>>
                  ELSE arg.frontlineData.students.items
  IN  {RosterCompare_normalizeName(IF students[i].studentName # <<>>
                                     THEN students[i].studentName
                                     ELSE students[i].teacherName) :
         i \in 1..Len(students)} \ {<<>>}

\* C30: matched + missingFromGC = totalFrontline, the number of distinct
\* non-empty normalized Frontline names; the counts of missing and extra
\* students are the lengths of the two lists; extra students are at most
\* totalGoogleClassroom; there is one issue for every entry of the two
\* lists; and in issues every 'missing' entry comes before every 'extra'.
C30_SummaryConsistent ==
  call = "RosterCompare.compare" =>
    /\ result.summary.matched + result.summary.missingFromGC = result.summary.totalFrontline
    /\ result.summary.totalFrontline = Cardinality(frontlineNamesGiven)
    /\ result.summary.missingFromGC = Len(result.missingFromGC)
    /\ result.summary.extraInGC = Len(result.extraInGC)
    /\ result.summary.extraInGC <= result.summary.totalGoogleClassroom
    /\ Len(result.issues) = Len(result.missingFromGC) + Len(result.extraInGC)
    /\ \A i, j \in 1..Len(result.issues) :
         result.issues[i].type = "missing" /\ result.issues[j].type = "extra" => i < j

\* a student is matched, one is missing, two are extra, the missing one
\* sorts after an extra one by name, and a name was given twice
C30_Witness ==
  /\ call = "RosterCompare.compare"
  /\ result.summary.matched = 1
  /\ result.summary.missingFromGC = 1
  /\ result.summary.extraInGC = 2
  /\ localeCompare(result.issues[1].student, result.issues[2].student) > 0
  /\ Len(arg.frontlineData.students.items) = 3
====
